---- MODULE Spec2Model ----
(***************************************************************************)
(* A model of the 6502 interpreter core of NES_Emulator: the flat memory   *)
(* (src/src/cpu.rs, trait Mem), the opcode table (src/src/opcodes.rs) and  *)
(* the CPU with its reset, load and run operations (src/src/cpu.rs).       *)
(*                                                                         *)
(* Bytes and addresses are naturals kept inside their Rust widths (u8,     *)
(* u16).  The memory array [u8; 0xFFFF] is zero-filled by CPU::new, so it  *)
(* is kept as the function of its non-zero cells: a cell outside the       *)
(* function's domain holds 0.  A Rust panic ends the run; the variables    *)
(* then hold what the CPU held when the panic was raised.                  *)
(***************************************************************************)
EXTENDS Integers, Sequences, FiniteSets, TLC

VARIABLES
    register_a,       \* CPU.register_a: u8
    register_x,       \* CPU.register_x: u8
    register_y,       \* CPU.register_y: u8
    status,           \* CPU.status: CpuFlags (the bits, 0..255)
    program_counter,  \* CPU.program_counter: u16
    stack_pointer,    \* CPU.stack_pointer: u8
    memory,           \* CPU.memory: [u8; 0xFFFF], as its non-zero cells
    phase,            \* "idle", "running" (inside run's loop), "returned", "panicked"
    panic,            \* the panic that ended execution, or NoPanic
    overflow_checks,  \* the build: TRUE panics on integer overflow, FALSE wraps
    loaded,           \* whether load() has been called on this CPU
    image,            \* the program image given to load()
    runs,             \* calls of run() made so far
    writes,           \* calls of the memory interface made so far
    op,               \* the operation performed last
    fetched,          \* the opcode byte the last loop iteration fetched, and where
    access            \* the last memory accessor call: its arguments and result

registers == <<register_a, register_x, register_y, status, program_counter,
               stack_pointer>>

vars == <<register_a, register_x, register_y, status, program_counter,
          stack_pointer, memory, phase, panic, overflow_checks, loaded, image,
          runs, writes, op, fetched, access>>

----------------------------------------------------------------------------
(* Bounds of the model. *)

\* Longest short program image given to load (longer ones are zero-padded).
MaxProgLen == 3
\* Calls of run() in one behaviour.
MaxRuns == 2
\* Longest sequence of INX instructions in SpecInx.
MaxInx == 3
\* Direct assignments to the CPU's fields in SpecSetup.
\* Calls of mem_write / mem_write_u16 in SpecMem.
MaxWrites == 3

----------------------------------------------------------------------------
(* Widths and bit operations on u8 / u16. *)

Byte == 0 .. 255

wrapping_add_u8(a, b) == (a + b) % 256
wrapping_sub_u8(a, b) == (a + 256 - b) % 256
wrapping_add_u16(a, b) == (a + b) % 65536

RECURSIVE BitAnd(_, _)
BitAnd(a, b) ==
    IF a = 0 \/ b = 0 THEN 0
    ELSE (a % 2) * (b % 2) + 2 * BitAnd(a \div 2, b \div 2)

BitOr(a, b) == a + b - BitAnd(a, b)
BitXor(a, b) == a + b - 2 * BitAnd(a, b)

\* `v as i8 as u16`: the sign extension of a byte to 16 bits.
SignExtend(v) == IF v >= 128 THEN v + 65280 ELSE v

----------------------------------------------------------------------------
(* CpuFlags (bitflags!). *)

CARRY == 1
ZERO == 2
INTERRUPT_DISABLE == 4
DECIMAL_MODE == 8
BREAK == 16
BREAK2 == 32
OVERFLOW == 64
NEGATIVE == 128

contains(p, f) == BitAnd(p, f) = f
insert(p, f) == BitOr(p, f)
remove(p, f) == p - BitAnd(p, f)
set(p, f, b) == IF b THEN insert(p, f) ELSE remove(p, f)
\* All eight bits are named flags, so from_bits_truncate keeps every bit of a
\* u8 and from_bits never yields None.
from_bits_truncate(bits) == bits % 256

STACK == 256
STACK_RESET == 253

----------------------------------------------------------------------------
(* The opcode table. *)

AddressingModes ==
    {"Immediate", "ZeroPage", "ZeroPage_X", "ZeroPage_Y", "Absolute",
     "Absolute_X", "Absolute_Y", "Indirect_X", "Indirect_Y", "NoneAddressing"}

OpCode(code, mnemonic, len, mode) ==
    [code |-> code, mnemonic |-> mnemonic, len |-> len, mode |-> mode]

CPU_OPS_CODES == <<
    OpCode(0, "BRK", 1, "NoneAddressing"),  \* 0x00
    OpCode(170, "TAX", 1, "NoneAddressing"),  \* 0xAA
    OpCode(232, "INX", 1, "NoneAddressing"),  \* 0xE8
    OpCode(169, "LDA", 2, "Immediate"),  \* 0xA9
    OpCode(165, "LDA", 2, "ZeroPage"),  \* 0xA5
    OpCode(181, "LDA", 2, "ZeroPage_X"),  \* 0xB5
    OpCode(173, "LDA", 3, "Absolute"),  \* 0xAD
    OpCode(189, "LDA", 3, "Absolute_X"),  \* 0xBD
    OpCode(185, "LDA", 3, "Absolute_Y"),  \* 0xB9
    OpCode(161, "LDA", 2, "Indirect_X"),  \* 0xA1
    OpCode(177, "LDA", 2, "Indirect_Y"),  \* 0xB1
    OpCode(162, "LDX", 2, "Immediate"),  \* 0xA2
    OpCode(166, "LDX", 2, "ZeroPage"),  \* 0xA6
    OpCode(182, "LDX", 2, "ZeroPage_Y"),  \* 0xB6
    OpCode(174, "LDX", 3, "Absolute"),  \* 0xAE
    OpCode(190, "LDX", 3, "Absolute_Y"),  \* 0xBE
    OpCode(160, "LDY", 2, "Immediate"),  \* 0xA0
    OpCode(164, "LDY", 2, "ZeroPage"),  \* 0xA4
    OpCode(180, "LDY", 2, "ZeroPage_X"),  \* 0xB4
    OpCode(172, "LDY", 3, "Absolute"),  \* 0xAC
    OpCode(188, "LDY", 3, "Absolute_X"),  \* 0xBC
    OpCode(133, "STA", 2, "ZeroPage"),  \* 0x85
    OpCode(149, "STA", 2, "ZeroPage_X"),  \* 0x95
    OpCode(141, "STA", 3, "Absolute"),  \* 0x8D
    OpCode(157, "STA", 3, "Absolute_X"),  \* 0x9D
    OpCode(153, "STA", 3, "Absolute_Y"),  \* 0x99
    OpCode(129, "STA", 2, "Indirect_X"),  \* 0x81
    OpCode(145, "STA", 2, "Indirect_Y"),  \* 0x91
    OpCode(134, "STX", 2, "ZeroPage"),  \* 0x86
    OpCode(150, "STX", 2, "ZeroPage_Y"),  \* 0x96
    OpCode(142, "STX", 3, "Absolute"),  \* 0x8E
    OpCode(132, "STY", 2, "ZeroPage"),  \* 0x84
    OpCode(148, "STY", 2, "ZeroPage_X"),  \* 0x94
    OpCode(140, "STY", 3, "Absolute"),  \* 0x8C
    OpCode(105, "ADC", 2, "Immediate"),  \* 0x69
    OpCode(101, "ADC", 2, "ZeroPage"),  \* 0x65
    OpCode(117, "ADC", 2, "ZeroPage_X"),  \* 0x75
    OpCode(109, "ADC", 3, "Absolute"),  \* 0x6D
    OpCode(125, "ADC", 3, "Absolute_X"),  \* 0x7D
    OpCode(121, "ADC", 3, "Absolute_Y"),  \* 0x79
    OpCode(97, "ADC", 2, "Indirect_X"),  \* 0x61
    OpCode(113, "ADC", 2, "Indirect_Y"),  \* 0x71
    OpCode(233, "SBC", 2, "Immediate"),  \* 0xE9
    OpCode(229, "SBC", 2, "ZeroPage"),  \* 0xE5
    OpCode(245, "SBC", 2, "ZeroPage_X"),  \* 0xF5
    OpCode(237, "SBC", 3, "Absolute"),  \* 0xED
    OpCode(253, "SBC", 3, "Absolute_X"),  \* 0xFD
    OpCode(249, "SBC", 3, "Absolute_Y"),  \* 0xF9
    OpCode(225, "SBC", 2, "Indirect_X"),  \* 0xE1
    OpCode(241, "SBC", 2, "Indirect_Y"),  \* 0xF1
    OpCode(201, "CMP", 2, "Immediate"),  \* 0xC9
    OpCode(197, "CMP", 2, "ZeroPage"),  \* 0xC5
    OpCode(213, "CMP", 2, "ZeroPage_X"),  \* 0xD5
    OpCode(205, "CMP", 3, "Absolute"),  \* 0xCD
    OpCode(221, "CMP", 3, "Absolute_X"),  \* 0xDD
    OpCode(217, "CMP", 3, "Absolute_Y"),  \* 0xD9
    OpCode(193, "CMP", 2, "Indirect_X"),  \* 0xC1
    OpCode(209, "CMP", 2, "Indirect_Y"),  \* 0xD1
    OpCode(224, "CPX", 2, "Immediate"),  \* 0xE0
    OpCode(228, "CPX", 2, "ZeroPage"),  \* 0xE4
    OpCode(236, "CPX", 3, "Absolute"),  \* 0xEC
    OpCode(192, "CPY", 2, "Immediate"),  \* 0xC0
    OpCode(196, "CPY", 2, "ZeroPage"),  \* 0xC4
    OpCode(204, "CPY", 3, "Absolute"),  \* 0xCC
    OpCode(41, "AND", 2, "Immediate"),  \* 0x29
    OpCode(37, "AND", 2, "ZeroPage"),  \* 0x25
    OpCode(53, "AND", 2, "ZeroPage_X"),  \* 0x35
    OpCode(45, "AND", 3, "Absolute"),  \* 0x2D
    OpCode(61, "AND", 3, "Absolute_X"),  \* 0x3D
    OpCode(57, "AND", 3, "Absolute_Y"),  \* 0x39
    OpCode(33, "AND", 2, "Indirect_X"),  \* 0x21
    OpCode(49, "AND", 2, "Indirect_Y"),  \* 0x31
    OpCode(9, "ORA", 2, "Immediate"),  \* 0x09
    OpCode(5, "ORA", 2, "ZeroPage"),  \* 0x05
    OpCode(21, "ORA", 2, "ZeroPage_X"),  \* 0x15
    OpCode(13, "ORA", 3, "Absolute"),  \* 0x0D
    OpCode(29, "ORA", 3, "Absolute_X"),  \* 0x1D
    OpCode(25, "ORA", 3, "Absolute_Y"),  \* 0x19
    OpCode(1, "ORA", 2, "Indirect_X"),  \* 0x01
    OpCode(17, "ORA", 2, "Indirect_Y"),  \* 0x11
    OpCode(73, "EOR", 2, "Immediate"),  \* 0x49
    OpCode(69, "EOR", 2, "ZeroPage"),  \* 0x45
    OpCode(85, "EOR", 2, "ZeroPage_X"),  \* 0x55
    OpCode(77, "EOR", 3, "Absolute"),  \* 0x4D
    OpCode(93, "EOR", 3, "Absolute_X"),  \* 0x5D
    OpCode(89, "EOR", 3, "Absolute_Y"),  \* 0x59
    OpCode(65, "EOR", 2, "Indirect_X"),  \* 0x41
    OpCode(81, "EOR", 2, "Indirect_Y"),  \* 0x51
    OpCode(36, "BIT", 2, "ZeroPage"),  \* 0x24
    OpCode(44, "BIT", 3, "Absolute"),  \* 0x2C
    OpCode(6, "ASL", 2, "ZeroPage"),  \* 0x06
    OpCode(22, "ASL", 2, "ZeroPage_X"),  \* 0x16
    OpCode(14, "ASL", 3, "Absolute"),  \* 0x0E
    OpCode(30, "ASL", 3, "Absolute_X"),  \* 0x1E
    OpCode(70, "LSR", 2, "ZeroPage"),  \* 0x46
    OpCode(86, "LSR", 2, "ZeroPage_X"),  \* 0x56
    OpCode(78, "LSR", 3, "Absolute"),  \* 0x4E
    OpCode(94, "LSR", 3, "Absolute_X"),  \* 0x5E
    OpCode(38, "ROL", 2, "ZeroPage"),  \* 0x26
    OpCode(54, "ROL", 2, "ZeroPage_X"),  \* 0x36
    OpCode(46, "ROL", 3, "Absolute"),  \* 0x2E
    OpCode(62, "ROL", 3, "Absolute_X"),  \* 0x3E
    OpCode(102, "ROR", 2, "ZeroPage"),  \* 0x66
    OpCode(118, "ROR", 2, "ZeroPage_X"),  \* 0x76
    OpCode(110, "ROR", 3, "Absolute"),  \* 0x6E
    OpCode(126, "ROR", 3, "Absolute_X"),  \* 0x7E
    OpCode(230, "INC", 2, "ZeroPage"),  \* 0xE6
    OpCode(246, "INC", 2, "ZeroPage_X"),  \* 0xF6
    OpCode(238, "INC", 3, "Absolute"),  \* 0xEE
    OpCode(254, "INC", 3, "Absolute_X"),  \* 0xFE
    OpCode(198, "DEC", 2, "ZeroPage"),  \* 0xC6
    OpCode(214, "DEC", 2, "ZeroPage_X"),  \* 0xD6
    OpCode(206, "DEC", 3, "Absolute"),  \* 0xCE
    OpCode(222, "DEC", 3, "Absolute_X")   \* 0xDE
    >>

\* OPCODES_MAP: the HashMap built by inserting the table's entries in order, so
\* the last entry of a code is the one kept.
OpcodeKeys == {CPU_OPS_CODES[i].code : i \in 1 .. Len(CPU_OPS_CODES)}

OPCODES_MAP ==
    [k \in OpcodeKeys |->
        LET last == CHOOSE i \in 1 .. Len(CPU_OPS_CODES) :
                        /\ CPU_OPS_CODES[i].code = k
                        /\ \A j \in 1 .. Len(CPU_OPS_CODES) :
                               CPU_OPS_CODES[j].code = k => j <= i
        IN  CPU_OPS_CODES[last]]

----------------------------------------------------------------------------
(* Panics.  Each names the Rust panic that ends execution. *)

NoPanic == "none"
Return == "return"                          \* run() returned: not a panic
OutOfBounds == "index out of bounds"         \* self.memory[addr as usize]
RangeOutOfBounds == "range end index out of range"  \* the slice in load
Unrecognized == "Opcode is not recognized"   \* .expect(..) on the table lookup
NotSupported == "mode is not supported"      \* get_operand_address
NotImplemented == "not yet implemented"      \* todo!()
AddOverflow == "attempt to add with overflow"

\* The result of a fallible read: the value, or the panic raised instead.
Ok(v) == [halt |-> NoPanic, val |-> v]
Err(why) == [halt |-> why, val |-> 0]
Bind(r, F(_)) == IF r.halt # NoPanic THEN r ELSE F(r.val)

\* `a + b` on u16: a build with overflow checks panics, the others wrap.
add_u16(a, b) ==
    IF a + b < 65536 THEN Ok(a + b)
    ELSE IF overflow_checks THEN Err(AddOverflow)
    ELSE Ok((a + b) % 65536)

----------------------------------------------------------------------------
(* The memory: [u8; 0xFFFF], indices 0 .. 0xFFFE. *)

MemLen == 65535

NoCells == [a \in {} |-> 0]
Get(m, a) == IF a \in DOMAIN m THEN m[a] ELSE 0
Put(m, a, v) ==
    IF v = 0 THEN [x \in DOMAIN m \ {a} |-> m[x]]
    ELSE [x \in DOMAIN m \cup {a} |-> IF x = a THEN v ELSE m[x]]

Halt(c, why) == [c EXCEPT !.halt = why]
Then(c, F(_)) == IF c.halt # NoPanic THEN c ELSE F(c)

mem_read(c, addr) ==
    IF addr < MemLen THEN Ok(Get(c.memory, addr)) ELSE Err(OutOfBounds)

mem_write(c, addr, data) ==
    IF addr < MemLen THEN [c EXCEPT !.memory = Put(c.memory, addr, data)]
    ELSE Halt(c, OutOfBounds)

mem_read_u16(c, pos) ==
    Bind(mem_read(c, pos), LAMBDA lo :
    Bind(add_u16(pos, 1), LAMBDA pos1 :
    Bind(mem_read(c, pos1), LAMBDA hi :
    Ok(hi * 256 + lo))))

\* mem_write_u16 with the two bytes the other way round.
mem_write_u16_big_endian(c, pos, data) ==
    LET hi == data \div 256
        lo == data % 256
    IN  Then(mem_write(c, pos, hi), LAMBDA c1 :
        LET pos1 == add_u16(pos, 1)
        IN  IF pos1.halt # NoPanic THEN Halt(c1, pos1.halt)
            ELSE mem_write(c1, pos1.val, lo))

mem_write_u16(c, pos, data) ==
    LET hi == data \div 256
        lo == data % 256
    IN  Then(mem_write(c, pos, lo), LAMBDA c1 :
        LET pos1 == add_u16(pos, 1)
        IN  IF pos1.halt # NoPanic THEN Halt(c1, pos1.halt)
            ELSE mem_write(c1, pos1.val, hi))

----------------------------------------------------------------------------
(* The CPU. *)

\* The CPU as the variables hold it.
Cpu ==
    [register_a |-> register_a, register_x |-> register_x,
     register_y |-> register_y, status |-> status,
     program_counter |-> program_counter, stack_pointer |-> stack_pointer,
     memory |-> memory, halt |-> NoPanic]

new ==
    [register_a |-> 0, register_x |-> 0, register_y |-> 0,
     status |-> from_bits_truncate(36),
     program_counter |-> 0, stack_pointer |-> STACK_RESET,
     memory |-> NoCells, halt |-> NoPanic]

\* reset that leaves the status register as it is.
reset_keeps_status(c) ==
    LET vector == mem_read_u16(c, 65532)
    IN  IF vector.halt # NoPanic
        THEN Halt([c EXCEPT !.register_a = 0, !.register_x = 0,
                            !.register_y = 0], vector.halt)
        ELSE [c EXCEPT !.register_a = 0, !.register_x = 0, !.register_y = 0,
                       !.program_counter = vector.val,
                       !.stack_pointer = STACK_RESET]

reset(c) ==
    LET vector == mem_read_u16(c, 65532)
    IN  IF vector.halt # NoPanic
        THEN Halt([c EXCEPT !.register_a = 0, !.register_x = 0,
                            !.register_y = 0], vector.halt)
        ELSE [c EXCEPT !.register_a = 0, !.register_x = 0, !.register_y = 0,
                       !.program_counter = vector.val,
                       !.stack_pointer = STACK_RESET,
                       !.status = from_bits_truncate(36)]

\* get_operand_address whose zero-page index and pointer arithmetic carry
\* into page one.
get_operand_address_leaves_page_zero(c, mode) ==
    LET pc == c.program_counter
    IN  CASE mode = "Immediate" -> Ok(pc)
          [] mode = "ZeroPage" -> mem_read(c, pc)
          [] mode = "Absolute" -> mem_read_u16(c, pc)
          [] mode = "ZeroPage_X" ->
                Bind(mem_read(c, pc), LAMBDA pos : Ok(pos + c.register_x))
          [] mode = "ZeroPage_Y" ->
                Bind(mem_read(c, pc), LAMBDA pos : Ok(pos + c.register_y))
          [] mode = "Absolute_X" ->
                Bind(mem_read_u16(c, pc), LAMBDA base :
                Ok(wrapping_add_u16(base, c.register_x)))
          [] mode = "Absolute_Y" ->
                Bind(mem_read_u16(c, pc), LAMBDA base :
                Ok(wrapping_add_u16(base, c.register_y)))
          [] mode = "Indirect_X" ->
                Bind(mem_read(c, pc), LAMBDA base :
                LET ptr == wrapping_add_u8(base, c.register_x)
                IN  Bind(mem_read(c, ptr), LAMBDA lo :
                    Bind(mem_read(c, ptr + 1), LAMBDA hi :
                    Ok(hi * 256 + lo))))
          [] mode = "Indirect_Y" ->
                Bind(mem_read(c, pc), LAMBDA base :
                Bind(mem_read(c, base), LAMBDA lo :
                Bind(mem_read(c, base + 1), LAMBDA hi :
                Ok(wrapping_add_u16(hi * 256 + lo, c.register_y)))))
          [] mode = "NoneAddressing" -> Err(NotSupported)

get_operand_address(c, mode) ==
    LET pc == c.program_counter
    IN  CASE mode = "Immediate" -> Ok(pc)
          [] mode = "ZeroPage" -> mem_read(c, pc)
          [] mode = "Absolute" -> mem_read_u16(c, pc)
          [] mode = "ZeroPage_X" ->
                Bind(mem_read(c, pc), LAMBDA pos :
                Ok(wrapping_add_u8(pos, c.register_x)))
          [] mode = "ZeroPage_Y" ->
                Bind(mem_read(c, pc), LAMBDA pos :
                Ok(wrapping_add_u8(pos, c.register_y)))
          [] mode = "Absolute_X" ->
                Bind(mem_read_u16(c, pc), LAMBDA base :
                Ok(wrapping_add_u16(base, c.register_x)))
          [] mode = "Absolute_Y" ->
                Bind(mem_read_u16(c, pc), LAMBDA base :
                Ok(wrapping_add_u16(base, c.register_y)))
          [] mode = "Indirect_X" ->
                Bind(mem_read(c, pc), LAMBDA base :
                LET ptr == wrapping_add_u8(base, c.register_x)
                IN  Bind(mem_read(c, ptr), LAMBDA lo :
                    Bind(mem_read(c, wrapping_add_u8(ptr, 1)), LAMBDA hi :
                    Ok(hi * 256 + lo))))
          [] mode = "Indirect_Y" ->
                Bind(mem_read(c, pc), LAMBDA base :
                Bind(mem_read(c, base), LAMBDA lo :
                Bind(mem_read(c, wrapping_add_u8(base, 1)), LAMBDA hi :
                Ok(wrapping_add_u16(hi * 256 + lo, c.register_y)))))
          [] mode = "NoneAddressing" -> Err(NotSupported)

\* update_zero_and_negative_flags that sets NEGATIVE but never clears it.
update_flags_negative_sticky(c, result) ==
    LET z == set(c.status, ZERO, result = 0)
    IN  [c EXCEPT !.status = IF BitAnd(result, 128) # 0
                             THEN insert(z, NEGATIVE) ELSE z]

\* update_zero_and_negative_flags with bit 4 in the place of ZERO.
update_flags_on_bit_4(c, result) ==
    LET z == set(c.status, BREAK, result = 0)
    IN  [c EXCEPT !.status = set(z, NEGATIVE, BitAnd(result, 128) # 0)]

update_zero_and_negative_flags(c, result) ==
    LET z == set(c.status, ZERO, result = 0)
    IN  [c EXCEPT !.status = set(z, NEGATIVE, BitAnd(result, 128) # 0)]

set_register_a(c, value) ==
    update_zero_and_negative_flags([c EXCEPT !.register_a = value], value)

\* add_to_register_a that leaves the carry flag out of the sum.
add_to_register_a_without_carry_in(c, data) ==
    LET sum == c.register_a + data
        carry == sum > 255
        result == sum % 256
        overflow == BitAnd(BitAnd(BitXor(data, result),
                                  BitXor(result, c.register_a)), 128) # 0
        p == set(set(c.status, CARRY, carry), OVERFLOW, overflow)
    IN  set_register_a([c EXCEPT !.status = p], result)

\* add_to_register_a that sets OVERFLOW to the carry out of bit 7.
add_to_register_a_overflow_is_carry(c, data) ==
    LET sum == c.register_a + data
               + (IF contains(c.status, CARRY) THEN 1 ELSE 0)
        carry == sum > 255
        result == sum % 256
        p == set(set(c.status, CARRY, carry), OVERFLOW, carry)
    IN  set_register_a([c EXCEPT !.status = p], result)

add_to_register_a(c, data) ==
    LET sum == c.register_a + data
               + (IF contains(c.status, CARRY) THEN 1 ELSE 0)
        carry == sum > 255
        result == sum % 256
        overflow == BitAnd(BitAnd(BitXor(data, result),
                                  BitXor(result, c.register_a)), 128) # 0
        p == set(set(c.status, CARRY, carry), OVERFLOW, overflow)
    IN  set_register_a([c EXCEPT !.status = p], result)

\* stack_pop that reads the cell at SP before it increments SP.
stack_pop_reads_first(c) ==
    [cpu |-> [c EXCEPT !.stack_pointer = wrapping_add_u8(c.stack_pointer, 1)],
     val |-> mem_read(c, STACK + c.stack_pointer).val]

\* stack_pop: the CPU after the pop and the byte popped.  0x0100 + SP is at
\* most 0x01FF, inside the array.
stack_pop(c) ==
    LET sp == wrapping_add_u8(c.stack_pointer, 1)
    IN  [cpu |-> [c EXCEPT !.stack_pointer = sp],
         val |-> mem_read(c, STACK + sp).val]

stack_push(c, data) ==
    LET c1 == mem_write(c, STACK + c.stack_pointer, data)
    IN  [c1 EXCEPT !.stack_pointer = wrapping_sub_u8(c.stack_pointer, 1)]

stack_push_u16(c, data) ==
    stack_push(stack_push(c, data \div 256), data % 256)

stack_pop_u16(c) ==
    LET lo == stack_pop(c)
        hi == stack_pop(lo.cpu)
    IN  [cpu |-> hi.cpu, val |-> hi.val * 256 + lo.val]

branch(c, condition) ==
    IF condition
    THEN LET jump == mem_read(c, c.program_counter)
         IN  IF jump.halt # NoPanic THEN Halt(c, jump.halt)
             ELSE [c EXCEPT !.program_counter =
                      wrapping_add_u16(wrapping_add_u16(c.program_counter, 1),
                                       SignExtend(jump.val))]
    ELSE c

----------------------------------------------------------------------------
(* The arms of run's match, one operator per arm.  Each takes the CPU as it *)
(* is after the opcode fetch (program_counter at the first operand byte)    *)
(* and the opcode's table entry.                                            *)

\* `let addr = self.get_operand_address(&opcode.mode);
\*  let value = self.mem_read(addr);` with ad the address resolved: the byte
\* read and its address, or the panic of either step.
read(c, ad) ==
    IF ad.halt # NoPanic THEN [halt |-> ad.halt, val |-> 0, addr |-> 0]
    ELSE [halt |-> mem_read(c, ad.val).halt, val |-> mem_read(c, ad.val).val,
          addr |-> ad.val]

\* In the arms below, m is the operand as `read` gives it and ad the address
\* as get_operand_address gives it.
lda(c, m) ==
    IF m.halt # NoPanic THEN Halt(c, m.halt)
    ELSE update_zero_and_negative_flags([c EXCEPT !.register_a = m.val], m.val)

ldx(c, m) ==
    IF m.halt # NoPanic THEN Halt(c, m.halt)
    ELSE update_zero_and_negative_flags([c EXCEPT !.register_x = m.val], m.val)

ldy(c, m) ==
    IF m.halt # NoPanic THEN Halt(c, m.halt)
    ELSE update_zero_and_negative_flags([c EXCEPT !.register_y = m.val], m.val)

sta(c, ad) ==
    IF ad.halt # NoPanic THEN Halt(c, ad.halt)
    ELSE mem_write(c, ad.val, c.register_a)

stx(c, ad) ==
    IF ad.halt # NoPanic THEN Halt(c, ad.halt)
    ELSE mem_write(c, ad.val, c.register_x)

sty(c, ad) ==
    IF ad.halt # NoPanic THEN Halt(c, ad.halt)
    ELSE mem_write(c, ad.val, c.register_y)

tax(c) == update_zero_and_negative_flags(
              [c EXCEPT !.register_x = c.register_a], c.register_a)
tay(c) == update_zero_and_negative_flags(
              [c EXCEPT !.register_y = c.register_a], c.register_a)
tsx(c) == update_zero_and_negative_flags(
              [c EXCEPT !.register_x = c.stack_pointer], c.stack_pointer)
txa(c) == update_zero_and_negative_flags(
              [c EXCEPT !.register_a = c.register_x], c.register_x)
tya(c) == update_zero_and_negative_flags(
              [c EXCEPT !.register_a = c.register_y], c.register_y)
txs(c) == [c EXCEPT !.stack_pointer = c.register_x]

\* INX that stops at 0xFF instead of wrapping.
inx_saturating(c) ==
    LET x == IF c.register_x = 255 THEN 255 ELSE c.register_x + 1
    IN  update_zero_and_negative_flags([c EXCEPT !.register_x = x], x)

inx(c) ==
    update_zero_and_negative_flags(
        [c EXCEPT !.register_x = wrapping_add_u8(c.register_x, 1)],
        wrapping_add_u8(c.register_x, 1))

iny(c) ==
    update_zero_and_negative_flags(
        [c EXCEPT !.register_y = wrapping_add_u8(c.register_y, 1)],
        wrapping_add_u8(c.register_y, 1))

dex(c) ==
    update_zero_and_negative_flags(
        [c EXCEPT !.register_x = wrapping_sub_u8(c.register_x, 1)],
        wrapping_sub_u8(c.register_x, 1))

dey(c) ==
    update_zero_and_negative_flags(
        [c EXCEPT !.register_y = wrapping_sub_u8(c.register_y, 1)],
        wrapping_sub_u8(c.register_y, 1))

pha(c) == stack_push(c, c.register_a)

php(c) == stack_push(c, insert(insert(c.status, BREAK), BREAK2))

pla(c) == set_register_a(stack_pop(c).cpu, stack_pop(c).val)

plp(c) ==
    [stack_pop(c).cpu EXCEPT
        !.status = insert(remove(stack_pop(c).val, BREAK), BREAK2)]

sec(c) == [c EXCEPT !.status = insert(c.status, CARRY)]
clc(c) == [c EXCEPT !.status = remove(c.status, CARRY)]
sei(c) == [c EXCEPT !.status = insert(c.status, INTERRUPT_DISABLE)]
cli(c) == [c EXCEPT !.status = remove(c.status, INTERRUPT_DISABLE)]
sed(c) == [c EXCEPT !.status = insert(c.status, DECIMAL_MODE)]
cld(c) == [c EXCEPT !.status = remove(c.status, DECIMAL_MODE)]
clv(c) == [c EXCEPT !.status = remove(c.status, OVERFLOW)]

adc(c, m) ==
    IF m.halt # NoPanic THEN Halt(c, m.halt)
    ELSE add_to_register_a(c, m.val)

\* SBC that adds the two's complement of the operand.
sbc_adds_negation(c, m) ==
    IF m.halt # NoPanic THEN Halt(c, m.halt)
    ELSE add_to_register_a(c, wrapping_sub_u8(0, m.val))

\* `((data as i8).wrapping_neg().wrapping_sub(1)) as u8`
sbc(c, m) ==
    IF m.halt # NoPanic THEN Halt(c, m.halt)
    ELSE add_to_register_a(c, wrapping_sub_u8(wrapping_sub_u8(0, m.val), 1))

\* CMP, CPX, CPY on the register `reg`.
compare(c, m, reg) ==
    IF m.halt # NoPanic THEN Halt(c, m.halt)
    ELSE update_zero_and_negative_flags(
             [c EXCEPT !.status = set(c.status, CARRY, reg >= m.val)],
             wrapping_sub_u8(reg, m.val))

and(c, m) ==
    IF m.halt # NoPanic THEN Halt(c, m.halt)
    ELSE set_register_a(c, BitAnd(m.val, c.register_a))

ora(c, m) ==
    IF m.halt # NoPanic THEN Halt(c, m.halt)
    ELSE set_register_a(c, BitOr(m.val, c.register_a))

eor(c, m) ==
    IF m.halt # NoPanic THEN Halt(c, m.halt)
    ELSE set_register_a(c, BitXor(m.val, c.register_a))

bit(c, m) ==
    IF m.halt # NoPanic THEN Halt(c, m.halt)
    ELSE [c EXCEPT !.status =
            set(set(set(c.status, ZERO, BitAnd(c.register_a, m.val) = 0),
                    NEGATIVE, BitAnd(m.val, 128) > 0),
                OVERFLOW, BitAnd(m.val, 64) > 0)]

\* The memory forms of the shifts and rotates: `carry` is the new carry and
\* `result` the byte written back, both computed from the byte read.
read_modify_write(c, m, carry, result) ==
    IF m.halt # NoPanic THEN Halt(c, m.halt)
    ELSE update_zero_and_negative_flags(
             mem_write([c EXCEPT !.status = set(c.status, CARRY, carry)],
                       m.addr, result),
             result)

\* The accumulator forms.
accumulator(c, carry, result) ==
    set_register_a([c EXCEPT !.status = set(c.status, CARRY, carry)], result)

\* The carry flag of CPU c, as the rotates read it before they change it.
old_carry(c) == contains(c.status, CARRY)

Bit7(data) == data \div 128 = 1
Bit0(data) == data % 2 = 1
Shl(data, carry_in) == (data * 2) % 256
Shr(data, carry_in) == data \div 2
Rol(data, carry_in) == BitOr((data * 2) % 256, IF carry_in THEN 1 ELSE 0)
Ror(data, carry_in) == BitOr(data \div 2, IF carry_in THEN 128 ELSE 0)

asl_a(c) ==
    accumulator(c, Bit7(c.register_a), Shl(c.register_a, old_carry(c)))
asl(c, m) ==
    read_modify_write(c, m, Bit7(m.val), Shl(m.val, old_carry(c)))
\* The accumulator LSR takes the carry from bit 7 (`data >> 7 == 1`).
lsr_a(c) ==
    accumulator(c, Bit7(c.register_a), Shr(c.register_a, old_carry(c)))
lsr(c, m) ==
    read_modify_write(c, m, Bit0(m.val), Shr(m.val, old_carry(c)))
rol_a(c) ==
    accumulator(c, Bit7(c.register_a), Rol(c.register_a, old_carry(c)))
\* A ROL that shifts a zero into bit 0 whatever the carry was.
rol_without_carry_in(c, m) ==
    read_modify_write(c, m, Bit7(m.val), Shl(m.val, old_carry(c)))
rol(c, m) ==
    read_modify_write(c, m, Bit7(m.val), Rol(m.val, old_carry(c)))
ror_a(c) ==
    accumulator(c, Bit0(c.register_a), Ror(c.register_a, old_carry(c)))
ror(c, m) ==
    read_modify_write(c, m, Bit0(m.val), Ror(m.val, old_carry(c)))

\* INC that sets the flags from the byte written.
inc_flags_from_result(c, m) ==
    IF m.halt # NoPanic THEN Halt(c, m.halt)
    ELSE update_zero_and_negative_flags(
             mem_write(c, m.addr, wrapping_add_u8(m.val, 1)),
             wrapping_add_u8(m.val, 1))

\* INC and DEC write data +- 1 back and set the flags from the byte read.
inc(c, m) ==
    IF m.halt # NoPanic THEN Halt(c, m.halt)
    ELSE update_zero_and_negative_flags(
             mem_write(c, m.addr, wrapping_add_u8(m.val, 1)), m.val)

dec(c, m) ==
    IF m.halt # NoPanic THEN Halt(c, m.halt)
    ELSE update_zero_and_negative_flags(
             mem_write(c, m.addr, wrapping_sub_u8(m.val, 1)), m.val)

bcc(c) == branch(c, ~contains(c.status, CARRY))
bcs(c) == branch(c, contains(c.status, CARRY))
beq(c) == branch(c, contains(c.status, ZERO))
bne(c) == branch(c, ~contains(c.status, ZERO))
bmi(c) == branch(c, contains(c.status, NEGATIVE))
\* BPL tests CARRY in the source.
bpl(c) == branch(c, ~contains(c.status, CARRY))
bvc(c) == branch(c, ~contains(c.status, OVERFLOW))
bvs(c) == branch(c, contains(c.status, OVERFLOW))

jmp_absolute(c) ==
    LET mem_address == mem_read_u16(c, c.program_counter)
    IN  IF mem_address.halt # NoPanic THEN Halt(c, mem_address.halt)
        ELSE [c EXCEPT !.program_counter = mem_address.val]

jmp_indirect(c) ==
    LET mem_address == mem_read_u16(c, c.program_counter)
        indirect_ref ==
            IF mem_address.val % 256 = 255
            THEN Bind(mem_read(c, mem_address.val), LAMBDA lo :
                 Bind(mem_read(c, mem_address.val - 255), LAMBDA hi :
                 Ok(hi * 256 + lo)))
            ELSE mem_read_u16(c, mem_address.val)
    IN  IF mem_address.halt # NoPanic THEN Halt(c, mem_address.halt)
        ELSE IF indirect_ref.halt # NoPanic THEN Halt(c, indirect_ref.halt)
        ELSE [c EXCEPT !.program_counter = indirect_ref.val]

\* `self.stack_push_u16(self.program_counter + 2 - 1)`
jsr(c) ==
    LET ret == add_u16(c.program_counter, 2)
    IN  IF ret.halt # NoPanic THEN Halt(c, ret.halt)
        ELSE LET c1 == stack_push_u16(c, ret.val - 1)
                 target_address == mem_read_u16(c1, c1.program_counter)
             IN  IF target_address.halt # NoPanic
                 THEN Halt(c1, target_address.halt)
                 ELSE [c1 EXCEPT !.program_counter = target_address.val]

rts(c) ==
    LET popped == stack_pop_u16(c)
        pc == add_u16(popped.val, 1)
    IN  IF pc.halt # NoPanic THEN Halt(popped.cpu, pc.halt)
        ELSE [popped.cpu EXCEPT !.program_counter = pc.val]

rti(c) ==
    LET flags == stack_pop(c)
        pc == stack_pop_u16(flags.cpu)
    IN  [pc.cpu EXCEPT !.status = insert(remove(flags.val, BREAK), BREAK2),
                       !.program_counter = pc.val]

\* A BRK arm that falls out of the match instead of returning.
brk_nop_falls_through(c) == c

\* `0x00 | 0xEA => return`
brk_nop(c) == Halt(c, Return)

\* `_ => todo!()`
unimplemented(c) == Halt(c, NotImplemented)


----------------------------------------------------------------------------
(* run: one iteration of its loop. *)

\* `match code { ... }`, ad being what get_operand_address(&opcode.mode)
\* gives the arms that call it.
execute(c, code, ad) ==
    CASE code \in {169, 165, 173, 189, 185, 161, 177} -> lda(c, read(c, ad))
      [] code \in {162, 166, 182, 174, 190} -> ldx(c, read(c, ad))
      [] code \in {160, 164, 180, 172, 188} -> ldy(c, read(c, ad))
      [] code \in {133, 149, 141, 157, 153, 129, 145} -> sta(c, ad)
      [] code \in {134, 150, 142} -> stx(c, ad)
      [] code \in {132, 148, 140} -> sty(c, ad)
      [] code = 170 -> tax(c)
      [] code = 168 -> tay(c)
      [] code = 186 -> tsx(c)
      [] code = 138 -> txa(c)
      [] code = 152 -> tya(c)
      [] code = 154 -> txs(c)
      [] code = 232 -> inx(c)
      [] code = 200 -> iny(c)
      [] code = 72 -> pha(c)
      [] code = 8 -> php(c)
      [] code = 104 -> pla(c)
      [] code = 40 -> plp(c)
      [] code = 202 -> dex(c)
      [] code = 136 -> dey(c)
      [] code = 56 -> sec(c)
      [] code = 24 -> clc(c)
      [] code = 120 -> sei(c)
      [] code = 88 -> cli(c)
      [] code = 248 -> sed(c)
      [] code = 216 -> cld(c)
      [] code = 184 -> clv(c)
      [] code \in {105, 101, 117, 109, 125, 121, 97, 113} -> adc(c, read(c, ad))
      [] code \in {233, 229, 245, 237, 253, 249, 225, 241} -> sbc(c, read(c, ad))
      [] code \in {201, 197, 213, 205, 221, 217, 193, 209} ->
            compare(c, read(c, ad), c.register_a)
      [] code \in {224, 228, 236} -> compare(c, read(c, ad), c.register_x)
      [] code \in {192, 196, 204} -> compare(c, read(c, ad), c.register_y)
      [] code \in {41, 37, 53, 45, 61, 57, 33, 49} -> and(c, read(c, ad))
      [] code \in {9, 5, 21, 13, 29, 25, 1, 17} -> ora(c, read(c, ad))
      [] code \in {73, 69, 85, 77, 93, 89, 65, 81} -> eor(c, read(c, ad))
      [] code \in {36, 44} -> bit(c, read(c, ad))
      [] code = 10 -> asl_a(c)
      [] code \in {6, 22, 14, 30} -> asl(c, read(c, ad))
      [] code = 74 -> lsr_a(c)
      [] code \in {70, 86, 78, 94} -> lsr(c, read(c, ad))
      [] code = 42 -> rol_a(c)
      [] code \in {38, 54, 46, 62} -> rol(c, read(c, ad))
      [] code = 106 -> ror_a(c)
      [] code \in {102, 118, 110, 126} -> ror(c, read(c, ad))
      [] code \in {230, 246, 238, 254} -> inc(c, read(c, ad))
      [] code \in {198, 214, 206, 222} -> dec(c, read(c, ad))
      [] code = 144 -> bcc(c)
      [] code = 176 -> bcs(c)
      [] code = 240 -> beq(c)
      [] code = 208 -> bne(c)
      [] code = 48 -> bmi(c)
      [] code = 16 -> bpl(c)
      [] code = 80 -> bvc(c)
      [] code = 112 -> bvs(c)
      [] code = 76 -> jmp_absolute(c)
      [] code = 108 -> jmp_indirect(c)
      [] code = 32 -> jsr(c)
      [] code = 96 -> rts(c)
      [] code = 64 -> rti(c)
      [] code \in {0, 234} -> brk_nop(c)
      [] OTHER -> unimplemented(c)

\* A lookup that falls back on the table's first entry instead of panicking.
lookup_or_default(code) ==
    IF code \in DOMAIN OPCODES_MAP THEN Ok(OPCODES_MAP[code])
    ELSE Ok(CPU_OPS_CODES[1])

\* A lookup whose descriptors all carry NoneAddressing.
lookup_without_mode(code) ==
    IF code \in DOMAIN OPCODES_MAP
    THEN Ok([OPCODES_MAP[code] EXCEPT !.mode = "NoneAddressing"])
    ELSE Err(Unrecognized)

\* `opcodes.get(&code).expect(..)`: the descriptor, or the panic of expect.
lookup(code) ==
    IF code \in DOMAIN OPCODES_MAP THEN Ok(OPCODES_MAP[code])
    ELSE Err(Unrecognized)

\* `self.program_counter += n`: pc is the sum as add_u16 gives it.
set_program_counter(c, pc) ==
    IF pc.halt # NoPanic THEN Halt(c, pc.halt)
    ELSE [c EXCEPT !.program_counter = pc.val]

\* The advance by the whole length of the instruction, opcode byte included.
advance_by_len(c, program_counter_state, opcode) ==
    IF c.halt # NoPanic THEN c
    ELSE IF program_counter_state = c.program_counter
    THEN set_program_counter(c, add_u16(c.program_counter, opcode.len))
    ELSE c

\* An advance that puts PC back on the opcode just executed.
advance_rewinds(c, program_counter_state, opcode) ==
    IF c.halt # NoPanic THEN c
    ELSE IF program_counter_state = c.program_counter
    THEN [c EXCEPT !.program_counter = program_counter_state - 1]
    ELSE c

\* `if program_counter_state == self.program_counter
\*      { self.program_counter += (opcode.len - 1) as u16; }`
\* for the CPU c the arm left, unless the arm returned or panicked.
advance(c, program_counter_state, opcode) ==
    IF c.halt # NoPanic THEN c
    ELSE IF program_counter_state = c.program_counter
    THEN set_program_counter(c, add_u16(c.program_counter, opcode.len - 1))
    ELSE c

\* The lookup and the match, for the CPU c after the fetch.
dispatch(c, code, opcode) ==
    IF opcode.halt # NoPanic THEN Halt(c, opcode.halt)
    ELSE advance(execute(c, code, get_operand_address(c, opcode.val.mode)),
                 c.program_counter, opcode.val)

\* `let code = self.mem_read(self.program_counter);
\*  self.program_counter += 1;` and the rest of the iteration.
fetched_code(c, code) ==
    IF code.halt # NoPanic THEN Halt(c, code.halt)
    ELSE IF add_u16(c.program_counter, 1).halt # NoPanic
    THEN Halt(c, add_u16(c.program_counter, 1).halt)
    ELSE dispatch([c EXCEPT !.program_counter =
                              add_u16(c.program_counter, 1).val],
                  code.val, lookup(code.val))

\* The byte the next iteration fetches, or the panic its read raises.
fetch(c) == mem_read(c, c.program_counter)

\* One pass through the body of `loop { ... }`: the CPU after it, with halt
\* saying whether the loop goes on, run returned, or a panic ended it.
run_iteration(c) == fetched_code(c, fetch(c))

----------------------------------------------------------------------------
(* load: program images.  An image is a Vec<u8>, kept as its length and its *)
(* non-zero bytes by index (from 0).                                        *)

Image(bytes) ==
    [len |-> Len(bytes),
     bytes |-> [i \in {j - 1 : j \in {k \in 1 .. Len(bytes) : bytes[k] # 0}}
                   |-> bytes[i + 1]]]

\* The image `bytes`, zero-padded to `len` bytes, with `last` as its last byte.
Padded(bytes, len, last) ==
    [len |-> len,
     bytes |-> Put(Image(bytes).bytes, len - 1, last)]

ImageByte(program, i) == Get(program.bytes, i)

\* `self.memory[0x8000..(0x8000 + program.len())].copy_from_slice(&program);
\*  self.mem_write_u16(0xFFFC, 0x8000);`
load(c, program) ==
    IF 32768 + program.len > MemLen THEN Halt(c, RangeOutOfBounds)
    ELSE
    LET inside(a) == a >= 32768 /\ a < 32768 + program.len
        kept == {a \in DOMAIN c.memory : ~inside(a)}
        copied == {32768 + i : i \in DOMAIN program.bytes}
        m == [a \in kept \cup copied |->
                IF inside(a) THEN program.bytes[a - 32768] ELSE c.memory[a]]
    IN  mem_write_u16([c EXCEPT !.memory = m], 65532, 32768)

----------------------------------------------------------------------------
(* run and load_and_run as whole calls.                                     *)

\* `loop { ... }`: iterations until one returns or panics.
RECURSIVE run(_)
run(c) ==
    LET after == run_iteration(c)
    IN  IF after.halt # NoPanic THEN after ELSE run(after)

\* load then run, with the registers left as they are.
load_and_run_without_reset(c, program) ==
    LET l == load(c, program)
    IN  IF l.halt # NoPanic THEN l ELSE run(l)

\* `self.load(program); self.reset(); self.run();`
load_and_run(c, program) ==
    LET l == load(c, program)
        r == reset(l)
    IN  IF l.halt # NoPanic THEN l
        ELSE IF r.halt # NoPanic THEN r
        ELSE run(r)

----------------------------------------------------------------------------
(* The state machine: a CPU built by CPU::new and driven through load,      *)
(* reset and run; run advances one loop iteration per step.                 *)

\* The variables take the fields of the CPU record c.
Install(c) ==
    /\ register_a' = c.register_a
    /\ register_x' = c.register_x
    /\ register_y' = c.register_y
    /\ status' = c.status
    /\ program_counter' = c.program_counter
    /\ stack_pointer' = c.stack_pointer
    /\ memory' = c.memory

\* The variables take the CPU c an operation left; the phase is `next` when
\* the operation completed, and tells a return of run or a panic otherwise.
Outcome(c, next) ==
    /\ Install(c)
    /\ phase' = CASE c.halt = NoPanic -> next
                  [] c.halt = Return -> "returned"
                  [] OTHER -> "panicked"
    /\ panic' = IF c.halt = Return THEN NoPanic ELSE c.halt

NoFetch == [code |-> -1, at |-> -1]
NoAccess == [addr |-> -1, data |-> -1, val |-> -1]
NoImage == [len |-> 0, bytes |-> NoCells]

\* The state after `CPU::new()`, in either build.
Constructed ==
    /\ register_a = new.register_a
    /\ register_x = new.register_x
    /\ register_y = new.register_y
    /\ status = new.status
    /\ program_counter = new.program_counter
    /\ stack_pointer = new.stack_pointer
    /\ memory = new.memory
    /\ phase = "idle"
    /\ panic = NoPanic
    /\ overflow_checks \in BOOLEAN
    /\ loaded = FALSE
    /\ image = NoImage
    /\ runs = 0
    /\ writes = 0
    /\ op = "new"
    /\ fetched = NoFetch
    /\ access = NoAccess

Init == Constructed

\* Between calls: the CPU is not inside run and has not panicked.
Callable == phase \in {"idle", "returned"}

\* cpu.load(program), once per CPU.
Load(program) ==
    /\ Callable
    /\ ~loaded
    /\ Outcome(load(Cpu, program), phase)
    /\ loaded' = TRUE
    /\ image' = program
    /\ op' = "load"
    /\ UNCHANGED <<overflow_checks, runs, writes, fetched, access>>

\* cpu.reset()
Reset ==
    /\ Callable
    /\ Outcome(reset(Cpu), "idle")
    /\ op' = "reset"
    /\ UNCHANGED <<overflow_checks, loaded, image, runs, writes,
                   fetched, access>>

\* cpu.run() is entered: the loop is about to fetch at program_counter.
Run ==
    /\ Callable
    /\ runs < MaxRuns
    /\ phase' = "running"
    /\ runs' = runs + 1
    /\ op' = "run"
    /\ UNCHANGED <<registers, memory, panic, overflow_checks, loaded, image,
                   writes, fetched, access>>

\* One iteration of run's loop.
Step ==
    /\ phase = "running"
    /\ Outcome(run_iteration(Cpu), "running")
    /\ op' = "step"
    /\ fetched' = [code |-> IF fetch(Cpu).halt = NoPanic THEN fetch(Cpu).val
                            ELSE -1,
                   at |-> program_counter]
    /\ UNCHANGED <<overflow_checks, loaded, image, runs, writes,
                   access>>

\* Bytes of the short program images: BRK, STA abs, LDA #, TAX,
\* LDA zp,X (0xB5) and 0xFF (in no table entry).
ProgBytes == {0, 141, 169, 170, 181, 255}

SeqsUpTo(S, n) == UNION {[1 .. k -> S] : k \in 0 .. n}

Programs == {Image(bytes) : bytes \in SeqsUpTo(ProgBytes, MaxProgLen)}

Next ==
    \/ \E program \in Programs : Load(program)
    \/ Reset
    \/ Run
    \/ Step

Spec == Init /\ [][Next]_vars

\* The loop is about to fetch the opcode byte `code`.
Fetching(code) ==
    /\ phase = "running"
    /\ fetch(Cpu).halt = NoPanic
    /\ fetch(Cpu).val = code

\* A, X, Y, SP, P and every memory cell are as they were.
FrameKept ==
    /\ register_a' = register_a
    /\ register_x' = register_x
    /\ register_y' = register_y
    /\ stack_pointer' = stack_pointer
    /\ status' = status
    /\ memory' = memory

----------------------------------------------------------------------------
(* load and reset from any CPU state: the registers are pub fields and any  *)
(* memory cell can be written, so the CPU starts from a drawn state.        *)

\* Register files the CPU is started from: the one CPU::new leaves, and two
\* set through the pub fields.
SetupRegisters ==
    { [register_a |-> new.register_a, register_x |-> new.register_x,
       register_y |-> new.register_y, status |-> new.status,
       program_counter |-> new.program_counter,
       stack_pointer |-> new.stack_pointer],
      [register_a |-> 255, register_x |-> 1, register_y |-> 128,
       status |-> 255, program_counter |-> 65535, stack_pointer |-> 0],
      [register_a |-> 7, register_x |-> 255, register_y |-> 2,
       status |-> 195, program_counter |-> 32770, stack_pointer |-> 255] }

\* Memory contents the CPU is started from: the one CPU::new leaves, and
\* three written through mem_write (cells around the load area and the
\* reset vector).
SetupMemories ==
    { NoCells,
      (16 :> 7) @@ (65532 :> 52) @@ (65533 :> 18),
      (32767 :> 3) @@ (32768 :> 9) @@ (32771 :> 4) @@ (65533 :> 1)
          @@ (65534 :> 5),
      (32769 :> 6) @@ (65531 :> 8) @@ (65532 :> 255) @@ (65533 :> 255) }

SetupInit ==
    /\ \E r \in SetupRegisters :
          /\ register_a = r.register_a
          /\ register_x = r.register_x
          /\ register_y = r.register_y
          /\ status = r.status
          /\ program_counter = r.program_counter
          /\ stack_pointer = r.stack_pointer
    /\ memory \in SetupMemories
    /\ phase = "idle"
    /\ panic = NoPanic
    /\ overflow_checks \in BOOLEAN
    /\ loaded = FALSE
    /\ image = NoImage
    /\ runs = 0
    /\ writes = 0
    /\ op = "new"
    /\ fetched = NoFetch
    /\ access = NoAccess

\* Lengths of the long images: the last bytes of an image of 0x7FFD bytes
\* or more land on the reset vector, and 0x8000 bytes do not fit.
LongLens == {32764, 32765, 32766, 32767, 32768}

SetupPrograms ==
    {Image(bytes) : bytes \in SeqsUpTo({0, 169, 255}, MaxProgLen)}
    \cup {Padded(<<169, 0, 255>>, len, last) :
            len \in LongLens, last \in {0, 128, 255}}

SetupNext ==
    \/ \E program \in SetupPrograms : Load(program)
    \/ Reset

SpecSetup == SetupInit /\ [][SetupNext]_vars

\* C2: reset() from any CPU state yields A = X = Y = 0, SP = 0xFD,
\* P = 0b00100100 and PC = memory[0xFFFC] | (memory[0xFFFD] << 8), and
\* leaves every memory cell unchanged.
C2_ResetState ==
    [][op' = "reset" =>
            /\ phase' = "idle"
            /\ register_a' = 0
            /\ register_x' = 0
            /\ register_y' = 0
            /\ stack_pointer' = 253
            /\ status' = 36
            /\ program_counter' = Get(memory, 65532) + 256 * Get(memory, 65533)
            /\ memory' = memory]_vars

\* reset() has run on a CPU whose registers were all set and whose reset
\* vector was written by hand.
C2_Witness ==
    /\ op = "reset"
    /\ ~loaded
    /\ program_counter = 4660
    /\ Get(memory, 16) = 7

\* The cells of memory m, other than the load area of `program` and the
\* reset vector, are the cells of memory n.
SameElsewhere(m, n, program) ==
    \A a \in DOMAIN m \cup DOMAIN n :
        \/ a >= 32768 /\ a < 32768 + program.len
        \/ a \in {65532, 65533}
        \/ Get(m, a) = Get(n, a)

\* load(program) has completed: the image is in memory at 0x8000, the reset
\* vector holds 0x8000, every other cell and every register is unchanged.
Loaded(program) ==
    /\ phase' # "panicked"
    /\ \A i \in DOMAIN program.bytes \cup
                {a - 32768 : a \in {b \in DOMAIN memory' : b >= 32768}} :
          i < program.len => Get(memory', 32768 + i) = ImageByte(program, i)
    /\ Get(memory', 65532) = 0
    /\ Get(memory', 65533) = 128
    /\ SameElsewhere(memory', memory, program)
    /\ registers' = registers

\* A reset() that directly follows a load sets PC = 0x8000.
ResetAfterLoad == (op = "load" /\ op' = "reset") => program_counter' = 32768

\* C3, as the spec states it: for every program image, after load(program)
\* memory[0x8000 + i] = program[i] for every index i, memory[0xFFFC] = 0x00,
\* memory[0xFFFD] = 0x80, every other cell and every register is unchanged,
\* and a following reset() sets PC = 0x8000.
C3_LoadAnyImage ==
    [][/\ op' = "load" => Loaded(image')
       /\ ResetAfterLoad]_vars

\* C3, amended: the same for every program image of at most 0x7FFC bytes.
C3_LoadShortImage ==
    [][/\ (op' = "load" /\ image'.len <= 32764) => Loaded(image')
       /\ (image.len <= 32764) => ResetAfterLoad]_vars

\* An image of 0x7FFC bytes with a non-zero last byte was loaded over a
\* memory with other cells set, and reset() followed.
C3_Witness ==
    /\ op = "reset"
    /\ loaded
    /\ image.len = 32764
    /\ Get(memory, 65531) = 255
    /\ Get(memory, 32768) = 169
    /\ Get(memory, 32767) = 3
    /\ program_counter = 32768

----------------------------------------------------------------------------
(* The memory interface (trait Mem) called on a constructed CPU. *)

\* Addresses and data of the calls: both ends of the address space, the
\* load address and the reset vector.
MemAddrs == {0, 255, 32768, 65532, 65534, 65535}
MemBytes == {0, 1, 171}
MemWords == {0, 4660, 65280}

\* The outcome of a call that returns the value r (a record with halt and
\* val) and leaves the CPU unchanged.
Returned(r) ==
    /\ phase' = IF r.halt = NoPanic THEN phase ELSE "panicked"
    /\ panic' = r.halt
    /\ UNCHANGED <<registers, memory>>

\* let val = cpu.mem_read(addr)
MemRead(addr) ==
    /\ Callable
    /\ writes < MaxWrites
    /\ Returned(mem_read(Cpu, addr))
    /\ access' = [addr |-> addr, data |-> -1,
                  val |-> IF mem_read(Cpu, addr).halt = NoPanic
                          THEN mem_read(Cpu, addr).val ELSE -1]
    /\ writes' = writes + 1
    /\ op' = "mem_read"
    /\ UNCHANGED <<overflow_checks, loaded, image, runs, fetched>>

\* cpu.mem_write(addr, data)
MemWrite(addr, data) ==
    /\ Callable
    /\ writes < MaxWrites
    /\ Outcome(mem_write(Cpu, addr, data), phase)
    /\ access' = [addr |-> addr, data |-> data, val |-> -1]
    /\ writes' = writes + 1
    /\ op' = "mem_write"
    /\ UNCHANGED <<overflow_checks, loaded, image, runs, fetched>>

\* let val = cpu.mem_read_u16(pos)
MemReadU16(pos) ==
    /\ Callable
    /\ writes < MaxWrites
    /\ Returned(mem_read_u16(Cpu, pos))
    /\ access' = [addr |-> pos, data |-> -1,
                  val |-> IF mem_read_u16(Cpu, pos).halt = NoPanic
                          THEN mem_read_u16(Cpu, pos).val ELSE -1]
    /\ writes' = writes + 1
    /\ op' = "mem_read_u16"
    /\ UNCHANGED <<overflow_checks, loaded, image, runs, fetched>>

\* cpu.mem_write_u16(pos, data)
MemWriteU16(pos, data) ==
    /\ Callable
    /\ writes < MaxWrites
    /\ Outcome(mem_write_u16(Cpu, pos, data), phase)
    /\ access' = [addr |-> pos, data |-> data, val |-> -1]
    /\ writes' = writes + 1
    /\ op' = "mem_write_u16"
    /\ UNCHANGED <<overflow_checks, loaded, image, runs, fetched>>

MemNext ==
    \/ \E addr \in MemAddrs : MemRead(addr)
    \/ \E addr \in MemAddrs, data \in MemBytes : MemWrite(addr, data)
    \/ \E pos \in MemAddrs : MemReadU16(pos)
    \/ \E pos \in MemAddrs, data \in MemWords : MemWriteU16(pos, data)

SpecMem == Constructed /\ [][MemNext]_vars

\* C4: byte reads and writes never fail for any 16-bit address, 0xFFFF
\* included; mem_write(addr, b) followed by mem_read(addr) returns b; and the
\* 16-bit accessors at 0xFFFF wrap addr + 1 to 0x0000 instead of failing.
C4_MemoryNeverFails ==
    /\ [](phase # "panicked")
    /\ [][/\ (op = "mem_write" /\ op' = "mem_read"
                /\ access'.addr = access.addr) => access'.val = access.data
          /\ (op' = "mem_write_u16" /\ access'.addr = 65535) =>
                /\ Get(memory', 65535) = access'.data % 256
                /\ Get(memory', 0) = access'.data \div 256
          /\ (op' = "mem_read_u16" /\ access'.addr = 65535) =>
                access'.val = Get(memory, 65535) + 256 * Get(memory, 0)]_vars

----------------------------------------------------------------------------
(* Claims about run, checked under Spec. *)

\* C1: whenever the run loop fetches the opcode byte 0x00 (BRK), run returns
\* at that point: no further instruction is executed until run is called
\* again, A, X, Y, SP, P and every memory cell are unchanged, and PC is the
\* BRK's address plus one.
C1_BrkReturns ==
    [][/\ Fetching(0) =>
            /\ phase' = "returned"
            /\ panic' = NoPanic
            /\ FrameKept
            /\ program_counter' = program_counter + 1
       /\ phase = "returned" => op' # "step"]_vars

\* A run of a loaded program has returned on a BRK after instructions that
\* changed A and X.
C1_Witness ==
    /\ phase = "returned"
    /\ op = "step"
    /\ fetched.code = 0
    /\ fetched.at > 32768
    /\ register_a # 0
    /\ register_x # 0

\* C5: during run, execution aborts only because the fetched opcode byte is
\* absent from the opcode table or because a handler asks for the effective
\* address of NoneAddressing; no memory access, PC or SP arithmetic, stack
\* wrap or dispatch fall-through aborts it.
C5_OnlyTwoAborts ==
    (phase = "panicked" /\ op = "step") => panic \in {Unrecognized, NotSupported}

\* C6: when run fetches an opcode byte that is not in the opcode table,
\* execution ends in the "not recognized" panic before any arm runs: no
\* register other than PC, no flag, no stack cell and no memory cell is
\* modified by that iteration.
C6_UnknownOpcodeIsFatal ==
    [][(\E code \in Byte \ OpcodeKeys : Fetching(code)) =>
            /\ phase' = "panicked"
            /\ panic' = Unrecognized
            /\ FrameKept]_vars

\* Run has ended on the byte 0xFF, fetched as an opcode after instructions
\* that changed A.
C6_Witness ==
    /\ phase = "panicked"
    /\ panic = Unrecognized
    /\ fetched.code = 255
    /\ register_a # 0

----------------------------------------------------------------------------
(* One instruction at a time: the CPU after load of a three-byte image and  *)
(* reset, with registers, flags and data cells set, then run.               *)

\* Operand bytes of the image: a zero-page / low address, the top of the
\* address space, and one below it.
OpOperands == {<<16, 0>>, <<255, 255>>, <<254, 255>>}

\* (A, X, Y) the instruction starts from.
OpRegisters == {<<85, 1, 2>>, <<128, 255, 0>>}

\* Status registers the instruction starts from: the reset value, and
\* C, Z, V and N set on top of it.
OpStatuses == {36, 231}

\* Data cells written before the run: zero page (with a pointer at 0x00 and
\* one at 0x10), the page-one cell 0x0110 and the last array cell.
OpCells ==
    (0 :> 52) @@ (1 :> 18) @@ (16 :> 128) @@ (18 :> 127) @@ (255 :> 254)
        @@ (272 :> 3) @@ (4660 :> 9) @@ (65534 :> 153)

OpInit ==
    \E code \in Byte, operands \in OpOperands, r \in OpRegisters :
        LET written == [new EXCEPT !.memory = OpCells]
            program == Image(<<code, operands[1], operands[2]>>)
            c == reset(load(written, program))
        IN  /\ register_a = r[1]
            /\ register_x = r[2]
            /\ register_y = r[3]
            /\ status \in OpStatuses
            /\ program_counter = c.program_counter
            /\ stack_pointer = c.stack_pointer
            /\ memory = c.memory
            /\ phase = "idle"
            /\ panic = NoPanic
            /\ overflow_checks \in BOOLEAN
            /\ loaded = TRUE
            /\ image = program
            /\ runs = 0
            /\ writes = 0
            /\ op = "reset"
            /\ fetched = NoFetch
            /\ access = NoAccess

OpNext ==
    \/ Run
    \/ Step

SpecOp == OpInit /\ [][OpNext]_vars

\* The opcodes of the documented set, by the families the specification
\* lists.
DocumentedOpcodes ==
    {
       \* load/store
       169, 165, 181, 173, 189, 185, 161, 177,   \* LDA A9 A5 B5 AD BD B9 A1 B1
       162, 166, 182, 174, 190,   \* LDX A2 A6 B6 AE BE
       160, 164, 180, 172, 188,   \* LDY A0 A4 B4 AC BC
       133, 149, 141, 157, 153, 129, 145,   \* STA 85 95 8D 9D 99 81 91
       134, 150, 142,   \* STX 86 96 8E
       132, 148, 140,   \* STY 84 94 8C
       \* register transfers
       170,   \* TAX AA
       168,   \* TAY A8
       186,   \* TSX BA
       138,   \* TXA 8A
       152,   \* TYA 98
       154,   \* TXS 9A
       \* increments/decrements
       232,   \* INX E8
       200,   \* INY C8
       202,   \* DEX CA
       136,   \* DEY 88
       230, 246, 238, 254,   \* INC E6 F6 EE FE
       198, 214, 206, 222,   \* DEC C6 D6 CE DE
       \* stack
       72,   \* PHA 48
       8,   \* PHP 08
       104,   \* PLA 68
       40,   \* PLP 28
       \* flag ops
       56,   \* SEC 38
       24,   \* CLC 18
       120,   \* SEI 78
       88,   \* CLI 58
       248,   \* SED F8
       216,   \* CLD D8
       184,   \* CLV B8
       \* arithmetic
       105, 101, 117, 109, 125, 121, 97, 113,   \* ADC 69 65 75 6D 7D 79 61 71
       233, 229, 245, 237, 253, 249, 225, 241,   \* SBC E9 E5 F5 ED FD F9 E1 F1
       \* comparisons
       201, 197, 213, 205, 221, 217, 193, 209,   \* CMP C9 C5 D5 CD DD D9 C1 D1
       224, 228, 236,   \* CPX E0 E4 EC
       192, 196, 204,   \* CPY C0 C4 CC
       \* logicals
       41, 37, 53, 45, 61, 57, 33, 49,   \* AND 29 25 35 2D 3D 39 21 31
       9, 5, 21, 13, 29, 25, 1, 17,   \* ORA 09 05 15 0D 1D 19 01 11
       73, 69, 85, 77, 93, 89, 65, 81,   \* EOR 49 45 55 4D 5D 59 41 51
       36, 44,   \* BIT 24 2C
       \* shifts/rotates
       10, 6, 22, 14, 30,   \* ASL 0A 06 16 0E 1E
       74, 70, 86, 78, 94,   \* LSR 4A 46 56 4E 5E
       42, 38, 54, 46, 62,   \* ROL 2A 26 36 2E 3E
       106, 102, 118, 110, 126,   \* ROR 6A 66 76 6E 7E
       \* branches
       144,   \* BCC 90
       176,   \* BCS B0
       240,   \* BEQ F0
       208,   \* BNE D0
       48,   \* BMI 30
       16,   \* BPL 10
       80,   \* BVC 50
       112,   \* BVS 70
       \* jumps and subroutines
       76, 108,   \* JMP 4C 6C
       32,   \* JSR 20
       96,   \* RTS 60
       64,   \* RTI 40
       \* BRK/NOP
       0,   \* BRK 00
       234    \* NOP EA
    }

\* C7: every opcode of the documented set has a descriptor in the opcode
\* table, so fetching any of them is never rejected as an unrecognized
\* opcode.
C7_DocumentedOpcodesRecognized ==
    (phase = "panicked" /\ panic = Unrecognized) =>
        fetched.code \notin DocumentedOpcodes

\* The byte at address a of the 64 KiB address space.
read8(a) == Get(memory, a)

\* The effective address of an instruction about to be fetched at
\* program_counter, by addressing mode: the operand bytes follow the opcode.
EffectiveAddress(mode) ==
    LET pc == program_counter + 1
        byte == read8(pc % 65536)
        word == read8(pc % 65536) + 256 * read8((pc + 1) % 65536)
        pointer(p) == read8(p) + 256 * read8((p + 1) % 256)
    IN  CASE mode = "Immediate" -> pc % 65536
          [] mode = "ZeroPage" -> byte
          [] mode = "ZeroPage_X" -> (byte + register_x) % 256
          [] mode = "ZeroPage_Y" -> (byte + register_y) % 256
          [] mode = "Absolute" -> word
          [] mode = "Absolute_X" -> (word + register_x) % 65536
          [] mode = "Absolute_Y" -> (word + register_y) % 65536
          [] mode = "Indirect_X" -> pointer((byte + register_x) % 256)
          [] mode = "Indirect_Y" -> (pointer(byte) + register_y) % 65536

\* The opcodes of the table with one of the mnemonics.
OpcodesOf(mnemonics) ==
    {code \in OpcodeKeys : OPCODES_MAP[code].mnemonic \in mnemonics}

\* ZERO is set iff value is 0, NEGATIVE iff its bit 7 is set, and every
\* other flag is as it was.
ZeroNegativeFrom(value) ==
    /\ contains(status', ZERO) <=> value = 0
    /\ contains(status', NEGATIVE) <=> value >= 128
    /\ \A f \in {CARRY, INTERRUPT_DISABLE, DECIMAL_MODE, BREAK, BREAK2,
                 OVERFLOW} : contains(status', f) <=> contains(status, f)

\* C8: for every LDA, LDX and LDY opcode in the opcode table, executing it
\* sets the target register to the byte at the effective address of its
\* addressing mode, sets ZERO iff that byte is 0 and NEGATIVE iff its bit 7
\* is set, and changes no other register, no other flag, SP or any memory
\* cell.
C8_LoadSetsRegister ==
    [][\A code \in OpcodesOf({"LDA", "LDX", "LDY"}) : Fetching(code) =>
          LET mnemonic == OPCODES_MAP[code].mnemonic
              M == read8(EffectiveAddress(OPCODES_MAP[code].mode))
          IN  /\ phase' = "running"
              /\ register_a' = IF mnemonic = "LDA" THEN M ELSE register_a
              /\ register_x' = IF mnemonic = "LDX" THEN M ELSE register_x
              /\ register_y' = IF mnemonic = "LDY" THEN M ELSE register_y
              /\ ZeroNegativeFrom(M)
              /\ stack_pointer' = stack_pointer
              /\ memory' = memory]_vars

\* C9: executing STA, STX or STY writes the source register's value to the
\* effective address and changes nothing else: only that memory cell may
\* differ afterwards, and A, X, Y, SP and all status flags are unchanged.
C9_StoreWritesOneCell ==
    [][\A code \in OpcodesOf({"STA", "STX", "STY"}) : Fetching(code) =>
          LET mnemonic == OPCODES_MAP[code].mnemonic
              ea == EffectiveAddress(OPCODES_MAP[code].mode)
              source == CASE mnemonic = "STA" -> register_a
                          [] mnemonic = "STX" -> register_x
                          [] mnemonic = "STY" -> register_y
          IN  /\ phase' = "running"
              /\ Get(memory', ea) = source
              /\ \A a \in (DOMAIN memory \cup DOMAIN memory') \ {ea} :
                    Get(memory', a) = Get(memory, a)
              /\ register_a' = register_a
              /\ register_x' = register_x
              /\ register_y' = register_y
              /\ stack_pointer' = stack_pointer
              /\ status' = status]_vars

----------------------------------------------------------------------------
(* Runs of INX: the CPU after load of LDX #x; INX (k times); BRK and reset, *)
(* with A, Y, SP and P set, then run.                                       *)

\* (A, Y, SP, P) the run starts from.
InxRegisters == {<<0, 0, 253, 36>>, <<66, 128, 16, 231>>}

\* The image LDX #x; INX * k; BRK.
InxProgram(x, k) == Image(<<162, x>> \o [i \in 1 .. k |-> 232] \o <<0>>)

InxInit ==
    \E x \in Byte, k \in 0 .. MaxInx, r \in InxRegisters :
        LET c == reset(load(new, InxProgram(x, k)))
        IN  /\ register_a = r[1]
            /\ register_x = c.register_x
            /\ register_y = r[2]
            /\ stack_pointer = r[3]
            /\ status = r[4]
            /\ program_counter = c.program_counter
            /\ memory = c.memory
            /\ phase = "idle"
            /\ panic = NoPanic
            /\ overflow_checks \in BOOLEAN
            /\ loaded = TRUE
            /\ image = InxProgram(x, k)
            /\ runs = 0
            /\ writes = 0
            /\ op = "reset"
            /\ fetched = NoFetch
            /\ access = NoAccess

InxNext ==
    \/ Run
    \/ Step

SpecInx == InxInit /\ [][InxNext]_vars

\* The INX instructions of the loaded image that have been executed.
InxDone ==
    LET k == image.len - 3
        n == program_counter - 32770
    IN  IF n < k THEN n ELSE k

\* C10: INX sets X to (X + 1) mod 256 for every X (0xFF becomes 0x00, never
\* an overflow failure), sets ZERO/NEGATIVE from the new X, and leaves A, Y,
\* SP, the other flags and memory unchanged; a sequence of k INX
\* instructions from X = x leaves X = (x + k) mod 256.
C10_InxWraps ==
    /\ [][Fetching(232) =>
            /\ phase' = "running"
            /\ register_x' = (register_x + 1) % 256
            /\ ZeroNegativeFrom(register_x')
            /\ register_a' = register_a
            /\ register_y' = register_y
            /\ stack_pointer' = stack_pointer
            /\ memory' = memory]_vars
    /\ [](program_counter >= 32770 =>
            /\ phase # "panicked"
            /\ register_x = (ImageByte(image, 1) + InxDone) % 256)
    /\ [](phase = "returned" =>
            register_x = (ImageByte(image, 1) + image.len - 3) % 256)

\* The run of LDX #$FF; INX; INX; BRK has returned with X = 1, from a CPU
\* whose A, Y, SP and P were set.
C10_Witness ==
    /\ phase = "returned"
    /\ fetched.code = 0
    /\ ImageByte(image, 1) = 255
    /\ image.len = 5
    /\ register_x = 1
    /\ register_a = 66
    /\ stack_pointer = 16

----------------------------------------------------------------------------
(* ADC: the CPU after load of one ADC instruction and reset, with A, the    *)
(* carry and the operand byte set, then run.                                *)

\* Values of A and of the operand: both ends of the range, the sign
\* boundary, the carry boundary and values between.
AdcBytes ==
    {0, 1, 2, 15, 16, 63, 64, 80, 126, 127, 128, 129, 144, 176, 191, 192,
     208, 240, 254, 255}

\* The image is ADC #m, ADC $10 or ADC $1234, then BRK, and m is in the
\* cell a memory form reads.  The other flags are as reset leaves them, or
\* Z, D, V and N set on top of that.
AdcInit ==
    \E code \in {105, 101, 109}, a \in AdcBytes, m \in AdcBytes,
       p \in {36, 238}, carry \in BOOLEAN :
        LET program == CASE code = 105 -> Image(<<105, m, 0>>)
                         [] code = 101 -> Image(<<101, 16, 0>>)
                         [] code = 109 -> Image(<<109, 52, 18, 0>>)
            cells == CASE code = 105 -> NoCells
                       [] code = 101 -> Put(NoCells, 16, m)
                       [] code = 109 -> Put(NoCells, 4660, m)
            c == reset(load([new EXCEPT !.memory = cells], program))
        IN  /\ register_a = a
            /\ register_x = c.register_x
            /\ register_y = c.register_y
            /\ status = set(p, CARRY, carry)
            /\ program_counter = c.program_counter
            /\ stack_pointer = c.stack_pointer
            /\ memory = c.memory
            /\ phase = "idle"
            /\ panic = NoPanic
            /\ overflow_checks \in BOOLEAN
            /\ loaded = TRUE
            /\ image = program
            /\ runs = 0
            /\ writes = 0
            /\ op = "reset"
            /\ fetched = NoFetch
            /\ access = NoAccess

SpecAdc == AdcInit /\ [][OpNext]_vars

\* The carry-in of an instruction about to execute.
Cin == IF contains(status, CARRY) THEN 1 ELSE 0

\* C11: for every ADC with inputs A, M in 0..255 and carry-in Cin: the new A
\* is (A + M + Cin) mod 256, the new CARRY is set iff A + M + Cin > 255, the
\* new OVERFLOW is set iff ((M xor A') and (A xor A') and 0x80) is non-zero,
\* A the old and A' the new accumulator, and ZERO/NEGATIVE reflect A'.
C11_AdcArithmetic ==
    [][\A code \in OpcodesOf({"ADC"}) :
          (Fetching(code) /\ EffectiveAddress(OPCODES_MAP[code].mode) < MemLen)
          =>
          LET M == read8(EffectiveAddress(OPCODES_MAP[code].mode))
          IN  /\ phase' = "running"
              /\ register_a' = (register_a + M + Cin) % 256
              /\ contains(status', CARRY) <=> register_a + M + Cin > 255
              /\ contains(status', OVERFLOW) <=>
                    BitAnd(BitAnd(BitXor(M, register_a'),
                                  BitXor(register_a, register_a')), 128) # 0
              /\ contains(status', ZERO) <=> register_a' = 0
              /\ contains(status', NEGATIVE) <=> register_a' >= 128]_vars

\* ADC $10 has added 0x80 and the carry to A = 0x7F: A = 0x00 with CARRY and
\* ZERO set and OVERFLOW clear, from a status with OVERFLOW set.
C11_Witness ==
    /\ op = "step"
    /\ fetched.code = 101
    /\ phase = "running"
    /\ Get(memory, 16) = 128
    /\ register_a = 0
    /\ contains(status, CARRY)
    /\ contains(status, ZERO)
    /\ ~contains(status, OVERFLOW)
    /\ contains(status, DECIMAL_MODE)

----------------------------------------------------------------------------
(* Claims about the flags, checked under SpecOp. *)

\* The register an instruction of the table writes, by mnemonic and mode:
\* "A", "X", "Y", or "none".
Written(code) ==
    LET mnemonic == OPCODES_MAP[code].mnemonic
        mode == OPCODES_MAP[code].mode
    IN  CASE mnemonic \in {"LDA", "TXA", "TYA", "PLA", "ADC", "SBC", "AND",
                           "ORA", "EOR"} -> "A"
          [] mnemonic \in {"ASL", "LSR", "ROL", "ROR"}
                /\ mode = "NoneAddressing" -> "A"
          [] mnemonic \in {"LDX", "TAX", "TSX", "INX", "DEX"} -> "X"
          [] mnemonic \in {"LDY", "TAY", "INY", "DEY"} -> "Y"
          [] OTHER -> "none"

\* C12: after every instruction that writes A, X or Y (loads, transfers,
\* INX, ADC/SBC, AND/ORA/EOR, accumulator shifts/rotates, PLA), ZERO is set
\* iff the value written is 0 and NEGATIVE iff bit 7 of the value written
\* is 1.
C12_ZeroNegativeFollowWrite ==
    [][\A code \in OpcodeKeys :
          (Fetching(code) /\ Written(code) # "none" /\ phase' = "running") =>
          LET value == CASE Written(code) = "A" -> register_a'
                         [] Written(code) = "X" -> register_x'
                         [] Written(code) = "Y" -> register_y'
          IN  /\ contains(status', ZERO) <=> value = 0
              /\ contains(status', NEGATIVE) <=> value >= 128]_vars

\* TAX has copied A = 0x80 to X from the reset status: NEGATIVE is now set
\* and ZERO is clear.
C12_Witness ==
    /\ op = "step"
    /\ phase = "running"
    /\ fetched.code = 170
    /\ register_x = 128
    /\ status = 164

\* C13: in every state reachable from reset() by executing instructions, the
\* live status register has BREAK (bit 4) clear and BREAK2 (bit 5) set,
\* whatever bytes PLP or RTI pop from the stack: the PLP and RTI arms,
\* applied to the state with any byte on top of the stack, leave them so.
C13_BreakNeverLive ==
    /\ ~contains(status, BREAK)
    /\ contains(status, BREAK2)
    /\ \A bits \in {0, 16, 32, 48, 207, 223, 255} :
          LET pulled == plp(stack_push(Cpu, bits))
              returned == rti(stack_push(stack_push_u16(Cpu, 32768), bits))
          IN  /\ ~contains(pulled.status, BREAK)
              /\ contains(pulled.status, BREAK2)
              /\ ~contains(returned.status, BREAK)
              /\ contains(returned.status, BREAK2)

\* BIT $10 has set ZERO and NEGATIVE in the reset status.
C13_Witness ==
    /\ op = "step"
    /\ phase = "running"
    /\ fetched.code = 36
    /\ status = 166

----------------------------------------------------------------------------
(* The stack helpers called on a CPU whose SP was set and whose stack page  *)
(* and its neighbouring cells hold other bytes.                             *)

StackInit ==
    /\ register_a = new.register_a
    /\ register_x = new.register_x
    /\ register_y = new.register_y
    /\ status = new.status
    /\ program_counter = new.program_counter
    /\ stack_pointer \in Byte
    /\ memory = (255 :> 1) @@ (256 :> 2) @@ (257 :> 3) @@ (383 :> 4)
                    @@ (510 :> 5) @@ (511 :> 6) @@ (512 :> 7)
    /\ phase = "idle"
    /\ panic = NoPanic
    /\ overflow_checks \in BOOLEAN
    /\ loaded = FALSE
    /\ image = NoImage
    /\ runs = 0
    /\ writes = 0
    /\ op = "new"
    /\ fetched = NoFetch
    /\ access = NoAccess

\* cpu.stack_push(data)
StackPush(data) ==
    /\ Callable
    /\ writes < MaxWrites
    /\ Outcome(stack_push(Cpu, data), phase)
    /\ access' = [addr |-> STACK + stack_pointer, data |-> data, val |-> -1]
    /\ writes' = writes + 1
    /\ op' = "stack_push"
    /\ UNCHANGED <<overflow_checks, loaded, image, runs, fetched>>

\* let val = cpu.stack_pop()
StackPop ==
    /\ Callable
    /\ writes < MaxWrites
    /\ Outcome(stack_pop(Cpu).cpu, phase)
    /\ access' = [addr |-> STACK + stack_pop(Cpu).cpu.stack_pointer,
                  data |-> -1, val |-> stack_pop(Cpu).val]
    /\ writes' = writes + 1
    /\ op' = "stack_pop"
    /\ UNCHANGED <<overflow_checks, loaded, image, runs, fetched>>

StackNext ==
    \/ \E data \in {0, 171} : StackPush(data)
    \/ StackPop

SpecStack == StackInit /\ [][StackNext]_vars

\* C14: for every SP in 0..255 and every byte v, stack_push(v) followed by
\* stack_pop() returns v and restores SP to its prior value, including when
\* SP wraps; every push and pop touches only an address in 0x0100..0x01FF,
\* and a push changes no memory cell other than 0x0100 + SP.
C14_StackRoundTrip ==
    [][/\ op' = "stack_push" =>
            /\ phase' # "panicked"
            /\ stack_pointer' = (stack_pointer + 255) % 256
            /\ access'.addr = 256 + stack_pointer
            /\ Get(memory', 256 + stack_pointer) = access'.data
            /\ \A a \in (DOMAIN memory \cup DOMAIN memory')
                            \ {256 + stack_pointer} :
                  Get(memory', a) = Get(memory, a)
       /\ op' = "stack_pop" =>
            /\ phase' # "panicked"
            /\ stack_pointer' = (stack_pointer + 1) % 256
            /\ access'.val = Get(memory, 256 + stack_pointer')
            /\ memory' = memory
       /\ (op = "stack_push" /\ op' = "stack_pop") =>
            /\ access'.val = access.data
            /\ stack_pointer' = access.addr - 256]_vars

\* A push at SP = 0x00 wrote 0x0100 and left SP = 0xFF, and the pop that
\* followed returned the byte and left SP = 0x00.
C14_Witness ==
    /\ op = "stack_pop"
    /\ stack_pointer = 0
    /\ access.val = 171
    /\ Get(memory, 256) = 171
    /\ writes = 2

----------------------------------------------------------------------------
(* Claims about PHP/PLP, NOP and the program counter, checked under SpecOp. *)

\* C15: PHP leaves the live status as it was and pushes it with bits 4 and
\* 5 set; the PLP that follows restores CARRY, ZERO, INTERRUPT_DISABLE,
\* DECIMAL, OVERFLOW and NEGATIVE, with BREAK clear and BREAK2 set, and
\* leaves SP where it was before the PHP.
C15_PhpPlpRestores ==
    [][/\ Fetching(8) =>
            /\ phase' = "running"
            /\ status' = status
            /\ stack_pointer' = (stack_pointer + 255) % 256
            /\ Get(memory', 256 + stack_pointer) = BitOr(status, 48)
       /\ Fetching(40) =>
            /\ phase' = "running"
            /\ stack_pointer' = (stack_pointer + 1) % 256
            /\ status' = BitOr(BitAnd(Get(memory, 256 + stack_pointer'), 207),
                               32)]_vars

\* C17: fetching 0xEA makes run return normally, with A, X, Y, SP, P and
\* memory as they were.
C17_NopReturns ==
    [][Fetching(234) =>
          /\ phase' = "returned"
          /\ panic' = NoPanic
          /\ FrameKept]_vars

\* The mnemonics of the branches, jumps, calls and returns.
ControlTransfers ==
    {"BCC", "BCS", "BEQ", "BMI", "BNE", "BPL", "BVC", "BVS",
     "JMP", "JSR", "RTS", "RTI"}

\* C19: an instruction other than a branch, jump, call or return, fetched
\* at a, with table length L: the arm leaves PC at a + 1 and the next opcode
\* is fetched from a + L.
C19_NextFetchAfterLength ==
    [][\A code \in OpcodeKeys \ OpcodesOf(ControlTransfers) :
          (Fetching(code) /\ phase' \in {"running", "returned"}) =>
          LET c == [Cpu EXCEPT !.program_counter = program_counter + 1]
              after == execute(c, code,
                               get_operand_address(c, OPCODES_MAP[code].mode))
          IN  /\ after.program_counter = program_counter + 1
              /\ program_counter' = program_counter + OPCODES_MAP[code].len
              /\ phase' = "running" =>
                    fetch([Cpu EXCEPT !.program_counter = program_counter',
                                      !.memory = memory']).val
                        = Get(memory', program_counter
                                           + OPCODES_MAP[code].len)]_vars

\* A three-byte store at 0x8000 completed and the next fetch is at 0x8003.
C19_Witness ==
    /\ op = "step"
    /\ phase = "running"
    /\ fetched = [code |-> 141, at |-> 32768]
    /\ program_counter = 32771

\* C20: a JMP or JSR whose operand is the target T, and a taken BNE or BEQ
\* whose target is T, leave PC at exactly T, whatever T is.
C20_TransferReachesTarget ==
    [][/\ \A code \in {76, 32} :
            Fetching(code) =>
                /\ phase' = "running"
                /\ program_counter' = EffectiveAddress("Absolute")
       /\ \A code \in {208, 240} :
            (Fetching(code)
                /\ (contains(status, ZERO) <=> code = 240)) =>
                LET offset == read8((program_counter + 1) % 65536)
                    signed == IF offset >= 128 THEN offset - 256 ELSE offset
                IN  /\ phase' = "running"
                    /\ program_counter'
                         = (program_counter + 2 + signed + 65536) % 65536]_vars

----------------------------------------------------------------------------
(* load_and_run called once on a CPU whose registers and memory were set    *)
(* through the pub fields (SetupInit).                                      *)

MaxRot == 2

\* The image CMP #m; ROL op (n times); ROR op (n times); BRK; d, where op is
\* the address the byte d is loaded at.  A is 0 after reset, so CMP #m
\* leaves the carry set iff m = 0.
RolRorProgram(m, n, d) ==
    LET lo == (6 * n + 3) % 256
        hi == 128 + (6 * n + 3) \div 256
    IN  Image(<<201, m>> \o [i \in 1 .. 3 * n |->
                                CASE i % 3 = 1 -> 46
                                  [] i % 3 = 2 -> lo
                                  [] OTHER -> hi]
                         \o [i \in 1 .. 3 * n |->
                                CASE i % 3 = 1 -> 110
                                  [] i % 3 = 2 -> lo
                                  [] OTHER -> hi]
                         \o <<0, d>>)

\* cpu.load_and_run(program), once per CPU.
LoadAndRun(program) ==
    /\ Callable
    /\ ~loaded
    /\ runs < MaxRuns
    /\ Outcome(load_and_run(Cpu, program), "idle")
    /\ loaded' = TRUE
    /\ image' = program
    /\ runs' = runs + 1
    /\ op' = "load_and_run"
    /\ UNCHANGED <<overflow_checks, writes, fetched, access>>

CallNext == \E program \in Programs : LoadAndRun(program)

SpecCall == SetupInit /\ [][CallNext]_vars

RotNext ==
    \E m \in {0, 1}, n \in 1 .. MaxRot, d \in Byte :
        LoadAndRun(RolRorProgram(m, n, d))

SpecRot == SetupInit /\ [][RotNext]_vars

\* C16: for every operand byte d, carry C and N >= 1, N ROL instructions
\* followed by N ROR instructions on the same operand leave the operand
\* equal to d and CARRY equal to C, as they were before the first ROL.
C16_RolRorRestores ==
    [][LET n == (image'.len - 4) \div 6
           m == ImageByte(image', 1)
           d == ImageByte(image', image'.len - 1)
           operand == 32768 + 6 * n + 3
       IN  (/\ op' = "load_and_run"
            /\ image'.len >= 10
            /\ image' = RolRorProgram(m, n, d)) =>
               /\ \A before \in {run_iteration(reset(load(Cpu, image')))} :
                     /\ before.halt = NoPanic
                     /\ before.program_counter = 32770
                     /\ Get(before.memory, operand) = d
                     /\ contains(before.status, CARRY) <=> m = 0
               /\ phase' = "returned"
               /\ program_counter' = operand
               /\ Get(memory', operand) = d
               /\ contains(status', CARRY) <=> m = 0]_vars

\* Two ROLs and two RORs of 0x81 with the carry set have run to the BRK:
\* the operand is 0x81 and the carry is set.
C16_Witness ==
    /\ op = "load_and_run"
    /\ phase = "returned"
    /\ image = RolRorProgram(0, 2, 129)
    /\ Get(memory, 32783) = 129
    /\ contains(status, CARRY)

\* The CPU with the memory of the current state and the registers r.
WithRegisters(r) ==
    [register_a |-> r.register_a, register_x |-> r.register_x,
     register_y |-> r.register_y, status |-> r.status,
     program_counter |-> r.program_counter,
     stack_pointer |-> r.stack_pointer, memory |-> memory, halt |-> NoPanic]

\* C18: load_and_run(program) ends the same way from every register state:
\* with the same memory, CPUs that differ in A, X, Y, SP, P and PC end with
\* the same registers, flags and memory, or fail with the same panic.
C18_RegistersDoNotMatter ==
    [][op' = "load_and_run" =>
          \A r \in SetupRegisters :
             IF load(Cpu, image').halt # NoPanic
             THEN /\ load(WithRegisters(r), image').halt
                        = load(Cpu, image').halt
                  /\ phase' = "panicked"
                  /\ panic' = load(Cpu, image').halt
             ELSE load_and_run(WithRegisters(r), image')
                    = [register_a |-> register_a', register_x |-> register_x',
                       register_y |-> register_y', status |-> status',
                       program_counter |-> program_counter',
                       stack_pointer |-> stack_pointer', memory |-> memory',
                       halt |-> IF phase' = "returned" THEN Return
                                ELSE panic']]_vars

\* load_and_run of LDA #$AA; TAX; TAX has returned with A = X = 0xAA, SP and
\* P as reset and the BRK leave them, from memory that held another reset
\* vector.
C18_Witness ==
    /\ op = "load_and_run"
    /\ phase = "returned"
    /\ image = Image(<<169, 170, 170>>)
    /\ Get(memory, 16) = 7
    /\ Get(memory, 65532) = 0
    /\ register_a = 170
    /\ register_x = 170
    /\ register_y = 0
    /\ stack_pointer = 253
    /\ program_counter = 32772

----------------------------------------------------------------------------
(* Claims about the branches, JMP indirect, JSR and RTS, checked under      *)
(* SpecOp.                                                                  *)

\* The flag a branch opcode tests and the value of the flag that takes it.
BranchCondition ==
    (144 :> <<CARRY, FALSE>>) @@ (176 :> <<CARRY, TRUE>>)
        @@ (240 :> <<ZERO, TRUE>>) @@ (208 :> <<ZERO, FALSE>>)
        @@ (48 :> <<NEGATIVE, TRUE>>) @@ (16 :> <<NEGATIVE, FALSE>>)
        @@ (80 :> <<OVERFLOW, FALSE>>) @@ (112 :> <<OVERFLOW, TRUE>>)

\* C21: a branch is taken exactly when its flag condition holds (BCC and
\* BCS on CARRY, BEQ and BNE on ZERO, BMI and BPL on NEGATIVE, BVC and BVS
\* on OVERFLOW); not taken, it continues after its two bytes; it changes no
\* register, flag or memory cell.
C21_BranchTakenOnCondition ==
    [][\A code \in DOMAIN BranchCondition :
          Fetching(code) =>
             LET taken == contains(status, BranchCondition[code][1])
                              <=> BranchCondition[code][2]
                 offset == read8((program_counter + 1) % 65536)
                 signed == IF offset >= 128 THEN offset - 256 ELSE offset
             IN  /\ phase' = "running"
                 /\ FrameKept
                 /\ program_counter'
                      = IF taken
                        THEN (program_counter + 2 + signed + 65536) % 65536
                        ELSE program_counter + 2]_vars

\* C22: JMP indirect with operand p sets PC to memory[p] with the high byte
\* from memory[p & 0xFF00] when the low byte of p is 0xFF and from
\* memory[p + 1] otherwise, and changes nothing else.
C22_JmpIndirectPageWrap ==
    [][Fetching(108) =>
          LET p == EffectiveAddress("Absolute")
              high == IF p % 256 = 255 THEN p - 255 ELSE p + 1
          IN  /\ phase' = "running"
              /\ FrameKept
              /\ program_counter' = read8(p) + 256 * read8(high)]_vars

\* C23: a JSR at a pushes a + 2, high byte first, and continues at its
\* operand address; an RTS pops the low then the high byte and continues
\* one past the address popped, so the RTS that matches a JSR at a resumes
\* at a + 3 with SP as it was before the JSR.
C23_JsrRtsReturn ==
    [][/\ Fetching(32) =>
            /\ phase' = "running"
            /\ program_counter' = EffectiveAddress("Absolute")
            /\ stack_pointer' = (stack_pointer + 254) % 256
            /\ Get(memory', 256 + stack_pointer)
                  = (program_counter + 2) \div 256
            /\ Get(memory', 256 + ((stack_pointer + 255) % 256))
                  = (program_counter + 2) % 256
       /\ Fetching(96) =>
            /\ phase' = "running"
            /\ stack_pointer' = (stack_pointer + 2) % 256
            /\ program_counter'
                  = (read8(256 + ((stack_pointer + 1) % 256))
                       + 256 * read8(256 + ((stack_pointer + 2) % 256)) + 1)
                    % 65536]_vars

----------------------------------------------------------------------------
(* ADC and SBC: the CPU after load of one ADC or SBC instruction and reset, *)
(* with A, the carry and the operand byte set, then run.                    *)

\* The image is ADC #m, SBC #m, SBC $10 or SBC $1234, then BRK, and m is in
\* the cell a memory form reads.
ArithInit ==
    \E code \in {105, 233, 229, 237}, a \in AdcBytes, m \in AdcBytes,
       p \in {36, 238}, carry \in BOOLEAN :
        LET program == CASE code \in {105, 233} -> Image(<<code, m, 0>>)
                         [] code = 229 -> Image(<<229, 16, 0>>)
                         [] code = 237 -> Image(<<237, 52, 18, 0>>)
            cells == CASE code \in {105, 233} -> NoCells
                       [] code = 229 -> Put(NoCells, 16, m)
                       [] code = 237 -> Put(NoCells, 4660, m)
            c == reset(load([new EXCEPT !.memory = cells], program))
        IN  /\ register_a = a
            /\ register_x = c.register_x
            /\ register_y = c.register_y
            /\ status = set(p, CARRY, carry)
            /\ program_counter = c.program_counter
            /\ stack_pointer = c.stack_pointer
            /\ memory = c.memory
            /\ phase = "idle"
            /\ panic = NoPanic
            /\ overflow_checks \in BOOLEAN
            /\ loaded = TRUE
            /\ image = program
            /\ runs = 0
            /\ writes = 0
            /\ op = "reset"
            /\ fetched = NoFetch
            /\ access = NoAccess

SpecArith == ArithInit /\ [][OpNext]_vars

\* C24: for every SBC with inputs A, M in 0..255 and carry-in C: the new A
\* is (A - M - (1 - C)) mod 256, which is (A + (255 - M) + C) mod 256, the
\* new CARRY is set iff A >= M + (1 - C), and ZERO/NEGATIVE reflect the new
\* A.
C24_SbcArithmetic ==
    [][\A code \in OpcodesOf({"SBC"}) :
          (Fetching(code) /\ EffectiveAddress(OPCODES_MAP[code].mode) < MemLen)
          =>
          LET M == read8(EffectiveAddress(OPCODES_MAP[code].mode))
          IN  /\ phase' = "running"
              /\ register_a' = (register_a - M - (1 - Cin) + 256) % 256
              /\ register_a' = (register_a + (255 - M) + Cin) % 256
              /\ contains(status', CARRY) <=> register_a >= M + (1 - Cin)
              /\ contains(status', ZERO) <=> register_a' = 0
              /\ contains(status', NEGATIVE) <=> register_a' >= 128]_vars

\* SBC $10 has subtracted 1 from A = 0 with the carry set: A = 0xFF with
\* CARRY clear (a borrow) and NEGATIVE set.
C24_Witness ==
    /\ op = "step"
    /\ fetched.code = 229
    /\ phase = "running"
    /\ Get(memory, 16) = 1
    /\ register_a = 255
    /\ ~contains(status, CARRY)
    /\ contains(status, NEGATIVE)
    /\ ~contains(status, OVERFLOW)

\* A byte read as a signed 8-bit value.
Signed(b) == IF b >= 128 THEN b - 256 ELSE b

\* C25: after ADC and after SBC, OVERFLOW is set iff the signed result,
\* A + M + Cin for ADC and A - M - (1 - Cin) for SBC with A and M read as
\* signed bytes, lies outside -128..127.
C25_OverflowIsSigned ==
    [][\A code \in OpcodesOf({"ADC", "SBC"}) :
          (Fetching(code) /\ EffectiveAddress(OPCODES_MAP[code].mode) < MemLen)
          =>
          LET M == read8(EffectiveAddress(OPCODES_MAP[code].mode))
              exact == IF OPCODES_MAP[code].mnemonic = "ADC"
                       THEN Signed(register_a) + Signed(M) + Cin
                       ELSE Signed(register_a) - Signed(M) - (1 - Cin)
          IN  /\ phase' = "running"
              /\ contains(status', OVERFLOW) <=> (exact < -128 \/ exact > 127)
          ]_vars

\* SBC #1 has taken A from 0x80 (-128) to 0x7F: OVERFLOW is set and no
\* borrow occurred.
C25_Witness ==
    /\ op = "step"
    /\ fetched.code = 233
    /\ phase = "running"
    /\ ImageByte(image, 1) = 1
    /\ register_a = 127
    /\ contains(status, OVERFLOW)
    /\ contains(status, CARRY)
    /\ ~contains(status, NEGATIVE)

----------------------------------------------------------------------------
(* Zero-page operands: the CPU after load of one instruction with a         *)
(* zero-page, indexed or indirect operand and reset, with page zero filled, *)
(* A, X and Y set, then run.                                                *)

\* The image is the instruction with operand byte b (and a high byte 0 for
\* the absolute forms), then BRK.  Page zero holds bytes at both ends and
\* in the middle, with a pointer to 0xFFFF at 0x10 and one that straddles
\* 0xFF and 0x00; 0x0100 holds a byte other than cell 0x00.  The
\* instructions are the stores and loads with ZeroPage_X, ZeroPage_Y,
\* Indirect_X and Indirect_Y operands and the INC and DEC forms.
ZeroPageInit ==
    \E code \in {149, 150, 180, 182, 129, 145, 161, 177,
                 230, 246, 238, 254, 198, 214, 206, 222},
       b \in {0, 1, 2, 14, 15, 16, 17, 126, 127, 128, 129, 253, 254, 255},
       index \in {<<0, 255>>, <<1, 2>>, <<255, 1>>, <<128, 127>>,
                  <<2, 0>>, <<127, 128>>} :
        LET cells == (0 :> 11) @@ (1 :> 255) @@ (2 :> 128) @@ (15 :> 1)
                         @@ (16 :> 255) @@ (17 :> 255) @@ (127 :> 127)
                         @@ (128 :> 254) @@ (129 :> 3) @@ (254 :> 52)
                         @@ (255 :> 230) @@ (256 :> 119)
            program == Image(<<code, b, 0>>)
            c == reset(load([new EXCEPT !.memory = cells], program))
        IN  /\ register_a = 165
            /\ register_x = index[1]
            /\ register_y = index[2]
            /\ status = c.status
            /\ program_counter = c.program_counter
            /\ stack_pointer = c.stack_pointer
            /\ memory = c.memory
            /\ phase = "idle"
            /\ panic = NoPanic
            /\ overflow_checks \in BOOLEAN
            /\ loaded = TRUE
            /\ image = program
            /\ runs = 0
            /\ writes = 0
            /\ op = "reset"
            /\ fetched = NoFetch
            /\ access = NoAccess

SpecZeroPage == ZeroPageInit /\ [][OpNext]_vars

\* C26: INC and DEC write (M + 1) mod 256 and (M - 1) mod 256 back to the
\* effective address and set ZERO and NEGATIVE from M, the value read, not
\* from the value written; registers, CARRY, OVERFLOW and the other cells
\* are unchanged.
C26_IncDecFlagsFromOperand ==
    [][\A code \in OpcodesOf({"INC", "DEC"}) :
          (Fetching(code) /\ EffectiveAddress(OPCODES_MAP[code].mode) < MemLen)
          =>
          LET ea == EffectiveAddress(OPCODES_MAP[code].mode)
              M == read8(ea)
          IN  /\ phase' = "running"
              /\ Get(memory', ea)
                   = IF OPCODES_MAP[code].mnemonic = "INC"
                     THEN (M + 1) % 256 ELSE (M + 255) % 256
              /\ \A a \in (DOMAIN memory \cup DOMAIN memory') \ {ea} :
                    Get(memory', a) = Get(memory, a)
              /\ ZeroNegativeFrom(M)
              /\ register_a' = register_a
              /\ register_x' = register_x
              /\ register_y' = register_y
              /\ stack_pointer' = stack_pointer]_vars

\* INC $10 has taken the cell from 0xFF to 0x00: NEGATIVE is set and ZERO
\* is clear, as for 0xFF.
C26_Witness ==
    /\ op = "step"
    /\ fetched.code = 230
    /\ phase = "running"
    /\ ImageByte(image, 1) = 16
    /\ Get(memory, 16) = 0
    /\ contains(status, NEGATIVE)
    /\ ~contains(status, ZERO)

\* The effective address of the instruction about to be fetched, for the
\* zero-page indexed and indirect modes, as page-zero arithmetic gives it.
PageZeroAddress(mode) ==
    LET operand == read8(program_counter + 1)
        p == (operand + register_x) % 256
    IN  CASE mode = "ZeroPage_X" -> (operand + register_x) % 256
          [] mode = "ZeroPage_Y" -> (operand + register_y) % 256
          [] mode = "Indirect_X" -> read8(p) + 256 * read8((p + 1) % 256)
          [] mode = "Indirect_Y" ->
                (read8(operand) + 256 * read8((operand + 1) % 256)
                   + register_y) % 65536

\* C27: the effective address of ZeroPage,X and ZeroPage,Y is
\* (operand + index) mod 256; (Indirect,X) and (Indirect),Y read both
\* pointer bytes from page zero, the high byte from (p + 1) mod 256, and
\* (Indirect),Y then adds Y with 16-bit wrap: a store writes that cell and
\* no other, and a load reads it.
C27_ZeroPageWraps ==
    [][\A code \in {c \in OpcodesOf({"STA", "STX", "STY", "LDA", "LDX", "LDY"}) \ {181} :
                      OPCODES_MAP[c].mode \in {"ZeroPage_X", "ZeroPage_Y",
                                               "Indirect_X", "Indirect_Y"}} :
          Fetching(code) =>
          LET mnemonic == OPCODES_MAP[code].mnemonic
              ea == PageZeroAddress(OPCODES_MAP[code].mode)
              source == CASE mnemonic = "STA" -> register_a
                          [] mnemonic = "STX" -> register_x
                          [] OTHER -> register_y
          IN  /\ OPCODES_MAP[code].mode \in {"ZeroPage_X", "ZeroPage_Y"}
                    => ea < 256
              /\ ea >= MemLen => phase' = "panicked" /\ panic' = OutOfBounds
              /\ ea < MemLen =>
                    /\ phase' = "running"
                    /\ mnemonic \in {"STA", "STX", "STY"} =>
                          /\ Get(memory', ea) = source
                          /\ \A a \in (DOMAIN memory \cup DOMAIN memory')
                                          \ {ea} :
                                Get(memory', a) = Get(memory, a)
                    /\ mnemonic = "LDA" => register_a' = read8(ea)
                    /\ mnemonic = "LDX" => register_x' = read8(ea)
                    /\ mnemonic = "LDY" => register_y' = read8(ea)]_vars

\* STA ($FE,X) with X = 1 has taken its pointer from 0x00FF and 0x0000 and
\* written A to 0x0BE6.
C27_Witness ==
    /\ op = "step"
    /\ fetched.code = 129
    /\ phase = "running"
    /\ ImageByte(image, 1) = 254
    /\ register_x = 1
    /\ Get(memory, 255) = 230
    /\ Get(memory, 0) = 11
    /\ Get(memory, 3046) = 165

----------------------------------------------------------------------------
(* Claims about the opcode table and the arms, checked under SpecOp.        *)

\* C28: every opcode of the table whose arm calls get_operand_address (the
\* arm fails when the resolver does) has a mode other than NoneAddressing,
\* and no instruction fetched by run fails in the resolver.
C28_ResolverNeverFails ==
    [][\A code \in OpcodeKeys :
          Fetching(code) =>
             /\ panic' # NotSupported
             /\ execute(Cpu, code, Err(NotSupported)).halt = NotSupported
                   => OPCODES_MAP[code].mode # "NoneAddressing"]_vars

\* LDA ($10),Y resolved its operand address and completed.
C28_Witness ==
    /\ op = "step"
    /\ phase = "running"
    /\ fetched.code = 177
    /\ ImageByte(image, 1) = 16
    /\ register_a = Get(memory, 128 + register_y)

\* C29: an opcode byte that has a descriptor in the table is handled by an
\* arm: after a successful lookup the match never reaches the default arm.
C29_TableOpcodesHaveArms ==
    [][\A code \in OpcodeKeys :
          Fetching(code) => panic' # NotImplemented]_vars

----------------------------------------------------------------------------
(* Termination of run: the CPU after reset with the reset vector pointing   *)
(* at `start`, an opcode byte and two more bytes there, then run; the loop  *)
(* keeps iterating until it returns or panics.                              *)

\* The three bytes at `start` are an opcode byte (every opcode of the table,
\* and 0xEA and 0xFF, which are not in it) followed by two bytes that are
\* data, instructions (INX, STA) or 0xFF; `start` is the load address, a
\* zero-page address or one of the last addresses of the array, and the
\* cells of the reset vector hold `start` wherever the bytes would overlap
\* them.
HaltInit ==
    \E code \in OpcodeKeys \cup {234, 255},
       operands \in {<<16, 0>>, <<232, 232>>, <<255, 255>>, <<141, 232>>},
       start \in {32768, 254, 65531, 65533, 65534} :
        LET bytes == (start :> code) @@ (start + 1 :> operands[1])
                         @@ (start + 2 :> operands[2])
            vector == (65532 :> start % 256) @@ (65533 :> start \div 256)
            cells == vector @@ bytes @@ OpCells
            stored == [a \in {x \in DOMAIN cells : x < MemLen /\ cells[x] # 0}
                         |-> cells[a]]
            c == reset([new EXCEPT !.memory = stored])
        IN  /\ register_a = c.register_a
            /\ register_x = c.register_x
            /\ register_y = c.register_y
            /\ status = c.status
            /\ program_counter = c.program_counter
            /\ stack_pointer = c.stack_pointer
            /\ memory = c.memory
            /\ phase = "idle"
            /\ panic = NoPanic
            /\ overflow_checks \in BOOLEAN
            /\ loaded = FALSE
            /\ image = NoImage
            /\ runs = 0
            /\ writes = 0
            /\ op = "reset"
            /\ fetched = NoFetch
            /\ access = NoAccess

\* run's loop keeps iterating.  This is weak fairness of Step, with
\* ENABLED <<Step>>_vars written out as phase = "running": an iteration is
\* possible exactly while run is in its loop.
SpecHalt ==
    /\ HaltInit
    /\ [][OpNext]_vars
    /\ ([]<>(phase # "running") \/ []<><<Step>>_vars)

\* C30: PC strictly increases from one iteration of run's loop to the next
\* and never passes the last address, so every run halts: it returns on
\* BRK or panics.
C30_RunHalts ==
    /\ [][(phase = "running" /\ phase' = "running") =>
             (program_counter' > program_counter /\ program_counter' <= 65535)
         ]_vars
    /\ (phase = "running") ~> (phase \in {"returned", "panicked"})

\* A run that started at 0xFFFE executed INX there and panicked on the
\* fetch at 0xFFFF.
C30_Witness ==
    /\ op = "step"
    /\ phase = "panicked"
    /\ panic = OutOfBounds
    /\ fetched = [code |-> -1, at |-> 65535]
    /\ Get(memory, 65534) = 232
    /\ register_x = 1

====
